---------------------------- MODULE Spec2Model ----------------------------
(***************************************************************************)
(* A model of the digmo broker portal: the document autofill pipeline      *)
(* (documents/autofill.py), the broker and customer views, and the         *)
(* reminder dispatch command.                                              *)
(*                                                                         *)
(* Conventions                                                             *)
(*  - A Python str is a sequence of one-character strings, so that         *)
(*    str.strip() and str.lower() are computed and not assumed.            *)
(*  - Python's None is the value None below (no Python str equals it).     *)
(*  - A float confidence c is the integer 10*c (0.9 is 9, 1.0 is 10).      *)
(*  - A call that may raise returns a record whose field "raised" names    *)
(*    the exception ("none" when the call returned).                       *)
(***************************************************************************)
EXTENDS Integers, Sequences, FiniteSets, TLC

VARIABLES
    pc,          \* "start", or the name of the function, view or command that ran last
    args,        \* the arguments of that call (for a view: the request)
    result,      \* what the call returned or raised (for a view: the response)
    documents,   \* table documents_customerdocument: pk -> row
    next_doc_pk, \* the next primary key of that table
    profiles,    \* table customers_customerprofile: pk -> row
    templates,   \* table documents_documenttemplate: pk -> row
    invites,     \* table customers_customerinvite: pk -> row
    accounts,    \* table users_user: user -> row
    rules,       \* table reminders_reminderrule: pk -> row
    logs,        \* table reminders_reminderlog: pk -> row
    now,         \* the clock, in days
    nreq         \* number of requests and command runs handled so far

docVars == <<documents, next_doc_pk>>

webVars == <<profiles, templates, invites, accounts>>

remVars == <<rules, logs, now>>

vars == <<pc, args, result, documents, next_doc_pk, profiles, templates, invites, accounts, rules,
          logs, now, nreq>>

-----------------------------------------------------------------------------
(* Python values                                                           *)

None == <<"<None>">>

Truthy(s) == s # None /\ s # <<>>

IsSpace(c) == c \in {" ", "\t", "\n"}

RECURSIVE LStrip(_)
LStrip(s) == IF s = <<>> THEN <<>>
             ELSE IF IsSpace(Head(s)) THEN LStrip(Tail(s)) ELSE s

RECURSIVE RStrip(_)
RStrip(s) == IF s = <<>> THEN <<>>
             ELSE IF IsSpace(s[Len(s)]) THEN RStrip(SubSeq(s, 1, Len(s) - 1)) ELSE s

\* str.strip()
Strip(s) == RStrip(LStrip(s))

UpperToLower ==
    [c \in {"A","B","C","D","E","F","G","H","I","J","K","L","M","N","O","P","Q","R",
            "S","T","U","V","W","X","Y","Z","Ä","Ö","Ü"} |->
        CASE c = "A" -> "a" [] c = "B" -> "b" [] c = "C" -> "c" [] c = "D" -> "d"
          [] c = "E" -> "e" [] c = "F" -> "f" [] c = "G" -> "g" [] c = "H" -> "h"
          [] c = "I" -> "i" [] c = "J" -> "j" [] c = "K" -> "k" [] c = "L" -> "l"
          [] c = "M" -> "m" [] c = "N" -> "n" [] c = "O" -> "o" [] c = "P" -> "p"
          [] c = "Q" -> "q" [] c = "R" -> "r" [] c = "S" -> "s" [] c = "T" -> "t"
          [] c = "U" -> "u" [] c = "V" -> "v" [] c = "W" -> "w" [] c = "X" -> "x"
          [] c = "Y" -> "y" [] c = "Z" -> "z" [] c = "Ä" -> "ä" [] c = "Ö" -> "ö"
          [] c = "Ü" -> "ü"]

\* str.lower()
Lower(s) == [i \in 1..Len(s) |-> IF s[i] \in DOMAIN UpperToLower THEN UpperToLower[s[i]] ELSE s[i]]

Min(a, b) == IF a < b THEN a ELSE b

Max(a, b) == IF a > b THEN a ELSE b

-----------------------------------------------------------------------------
(* CustomerProfile and model_to_dict                                       *)

W_id == <<"i","d">>
W_user == <<"u","s","e","r">>
W_broker == <<"b","r","o","k","e","r">>
W_status == <<"s","t","a","t","u","s">>
W_first_name == <<"f","i","r","s","t","_","n","a","m","e">>
W_last_name == <<"l","a","s","t","_","n","a","m","e">>
W_email == <<"e","m","a","i","l">>
W_phone == <<"p","h","o","n","e">>
W_street == <<"s","t","r","e","e","t">>
W_postal_code == <<"p","o","s","t","a","l","_","c","o","d","e">>
W_city == <<"c","i","t","y">>
W_employment_status == <<"e","m","p","l","o","y","m","e","n","t","_","s","t","a","t","u","s">>
W_monthly_income == <<"m","o","n","t","h","l","y","_","i","n","c","o","m","e">>
W_vorname == <<"v","o","r","n","a","m","e">>
W_nachname == <<"n","a","c","h","n","a","m","e">>
W_name == <<"n","a","m","e">>
W_telefon == <<"t","e","l","e","f","o","n">>
W_telefonnummer == <<"t","e","l","e","f","o","n","n","u","m","m","e","r">>
W_plz == <<"p","l","z">>
W_stadt == <<"s","t","a","d","t">>
W_ort == <<"o","r","t">>
W_e_dash_mail == <<"e","-","m","a","i","l">>
W_e_mail == <<"e","_","m","a","i","l">>
W_beschaeftigungsstatus == <<"b","e","s","c","h","ä","f","t","i","g","u","n","g","s","s","t","a","t","u","s">>
W_einkommen == <<"e","i","n","k","o","m","m","e","n">>

\* The editable fields of CustomerProfile, which are the keys of model_to_dict(customer)
\* (created_at and updated_at are auto fields and are left out by model_to_dict).
CustomerDictKeys ==
    {W_id, W_user, W_broker, W_status, W_first_name, W_last_name, W_email, W_phone,
     W_street, W_postal_code, W_city, W_employment_status, W_monthly_income}

\* The self-assessment fields of a profile (customers/models.py).
DataKeys ==
    {W_first_name, W_last_name, W_email, W_phone, W_street, W_postal_code, W_city,
     W_employment_status, W_monthly_income}

\* Users are named by their e-mail independent id; NoUser is a null foreign key.
NoUser == "nouser"

\* str(pk) of a user row.
UserPkStr == [u \in {"b1", "b2", "c1", "c2", "c3"} |->
                CASE u = "b1" -> <<"1">> [] u = "b2" -> <<"2">> [] u = "c1" -> <<"3">>
                  [] u = "c2" -> <<"4">> [] u = "c3" -> <<"5">>]

\* str(n) for the primary keys the model uses.
StrInt(n) == CASE n = 0 -> <<"0">> [] n = 1 -> <<"1">> [] n = 2 -> <<"2">> [] n = 3 -> <<"3">>
               [] n = 4 -> <<"4">> [] n = 5 -> <<"5">> [] n = 6 -> <<"6">> [] n = 7 -> <<"7">>
               [] n = 8 -> <<"8">> [] OTHER -> <<"9">>

\* CustomerProfile.Status values as Python strings.
StatusStr(st) == CASE st = "new" -> <<"n","e","w">>
                   [] st = "in_progress" -> <<"i","n","_","p","r","o","g","r","e","s","s">>
                   [] OTHER -> <<"c","o","m","p","l","e","t","e">>

\* model_to_dict(customer): every value is given as str(value), or None.
\* A customer row is [id, user, broker, status, data], data a function on DataKeys.
ModelToDict(c) ==
    [k \in CustomerDictKeys |->
        IF k = W_id THEN StrInt(c.id)
        ELSE IF k = W_user THEN (IF c.user = NoUser THEN None ELSE UserPkStr[c.user])
        ELSE IF k = W_broker THEN UserPkStr[c.broker]
        ELSE IF k = W_status THEN StatusStr(c.status)
        ELSE c.data[k]]

-----------------------------------------------------------------------------
(* documents/autofill.py: mapping entries and the fallback heuristic       *)

\* @dataclass MappingEntry
MappingEntry(tf, ck, v, conf, st, fid) ==
    [template_field |-> tf, customer_key |-> ck, value |-> v, confidence |-> conf,
     status |-> st, field_id |-> fid]

synonym_map ==
    [k \in {W_vorname, W_nachname, W_name, W_telefon, W_telefonnummer, W_plz, W_stadt,
            W_ort, W_email, W_e_dash_mail, W_e_mail, W_beschaeftigungsstatus, W_einkommen} |->
        CASE k = W_vorname -> W_first_name
          [] k = W_nachname -> W_last_name
          [] k = W_name -> W_last_name
          [] k = W_telefon -> W_phone
          [] k = W_telefonnummer -> W_phone
          [] k = W_plz -> W_postal_code
          [] k = W_stadt -> W_city
          [] k = W_ort -> W_city
          [] k = W_email -> W_email
          [] k = W_e_dash_mail -> W_email
          [] k = W_e_mail -> W_email
          [] k = W_beschaeftigungsstatus -> W_employment_status
          [] k = W_einkommen -> W_monthly_income]

\* The customer_key the fallback picks for one raw field name (None: no match).
FallbackCustomerKey(raw_name, customer_dict) ==
    LET key == Strip(raw_name)
        key_lower == Lower(key)
    IN  IF key \in DOMAIN customer_dict THEN key
        ELSE IF key_lower \in DOMAIN customer_dict THEN key_lower
        ELSE IF key_lower \in DOMAIN synonym_map /\ synonym_map[key_lower] \in DOMAIN customer_dict
             THEN synonym_map[key_lower]
        ELSE None

\* One iteration of the loop of build_fallback_mapping_for_customer.
FallbackEntry(raw_name, customer_dict) ==
    LET key == Strip(raw_name)
        customer_key == FallbackCustomerKey(raw_name, customer_dict)
    IN  IF Truthy(customer_key)
        THEN IF customer_dict[customer_key] = None
             THEN MappingEntry(key, customer_key, None, 9, "missing", None)
             ELSE MappingEntry(key, customer_key, customer_dict[customer_key], 9, "filled", None)
        ELSE MappingEntry(key, None, None, 0, "missing", None)

build_fallback_mapping_for_customer(field_names, customer) ==
    [i \in 1..Len(field_names) |-> FallbackEntry(field_names[i], ModelToDict(customer))]

allowed_keys ==
    <<W_first_name, W_last_name, W_email, W_phone, W_street, W_postal_code, W_city,
      W_employment_status, W_monthly_income>>

\* build_customer_payload: the allowed keys whose value is neither None nor blank.
build_customer_payload(customer) ==
    LET customer_dict == ModelToDict(customer)
        kept == {k \in {allowed_keys[i] : i \in 1..Len(allowed_keys)} :
                    /\ k \in DOMAIN customer_dict
                    /\ customer_dict[k] # None
                    /\ Strip(customer_dict[k]) # <<>>}
    IN  [k \in kept |-> customer_dict[k]]

-----------------------------------------------------------------------------
(* documents/autofill.py: the LLM mapping                                  *)
(*                                                                         *)
(* The environment of one call, env:                                       *)
(*   llm_enabled       AUTOFILL_LLM_ENABLED as _autofill_llm_enabled reads *)
(*   client            "ok", "none" (SDK missing or no API key) or         *)
(*                     "no_responses_api"                                  *)
(*   first_type_error  the first responses.create raises TypeError         *)
(*   response          what the (last) responses.create call yields:       *)
(*     kind            "transport_error", "empty_text", "not_json",        *)
(*                     "json_non_object" or "json_object"                  *)
(*     mappings_kind   of a JSON object: "absent", "falsy" (null, 0, "",   *)
(*                     []), "number" or "list" (any iterable)              *)
(*     elems           the elements of that iterable, each                 *)
(*                     [isobj, field_ref_kind, field_ref,                  *)
(*                      customer_key_kind, customer_key, conf_kind, conf]  *)

W_None == <<"N","o","n","e">>

\* str(m.get("field_ref", "")).strip()
ElemFieldRef(m) ==
    CASE m.field_ref_kind = "absent" -> <<>>
      [] m.field_ref_kind = "null" -> W_None
      [] OTHER -> Strip(m.field_ref)

\* ck = m.get("customer_key"); str(ck).strip() if ck is not None else None
ElemCustomerKey(m) ==
    IF m.customer_key_kind = "null" THEN None ELSE Strip(m.customer_key)

\* float(m.get("confidence", 0.0)) with 0.0 on error, then max(0.0, min(1.0, conf));
\* min(1.0, nan) is 1.0 in Python.
ElemConfidence(m) ==
    CASE m.conf_kind = "absent" -> 0
      [] m.conf_kind = "invalid" -> 0
      [] m.conf_kind = "nan" -> 10
      [] OTHER -> Max(0, Min(10, m.conf))

\* Bind(v, F) is F(v): the value is computed once and named by F's parameter
\* (a local variable of the code).
Bind(v, F(_)) == F(v)

\* What build_llm_mapping_for_customer hands back: it raised, it returned None
\* (is_none), or it returned the list value.
LlmRaised(exc) == [raised |-> exc, is_none |-> FALSE, value |-> <<>>]

LlmNone == [raised |-> "none", is_none |-> TRUE, value |-> <<>>]

LlmList(out) == [raised |-> "none", is_none |-> FALSE, value |-> out]

\* The loop over mappings_raw, which runs outside the try block: an element
\* without .get raises AttributeError where the loop reaches it.
RECURSIVE LlmLoop(_, _)
LlmLoop(elems, out) ==
    IF elems = <<>> THEN LlmList(out)
    ELSE LET m == Head(elems)
         IN  IF ~m.isobj THEN LlmRaised("AttributeError")
             ELSE IF ElemFieldRef(m) = <<>> THEN LlmLoop(Tail(elems), out)
             ELSE LlmLoop(Tail(elems),
                          Append(out, MappingEntry(ElemFieldRef(m), ElemCustomerKey(m), None,
                                                   ElemConfidence(m), "missing", ElemFieldRef(m))))

\* Whether the call gets as far as client.responses.create.
LlmRequestMade(pdf_bytes_empty, customer_keys, env) ==
    /\ env.llm_enabled
    /\ env.client = "ok"
    /\ ~pdf_bytes_empty
    /\ customer_keys # <<>>

\* The number of requests sent to the LLM API by one call.
LlmRequests(pdf_bytes_empty, customer_keys, env) ==
    IF ~LlmRequestMade(pdf_bytes_empty, customer_keys, env) THEN 0
    ELSE IF env.first_type_error THEN 2 ELSE 1

\* build_llm_mapping_for_customer
build_llm_mapping_for_customer(pdf_bytes_empty, customer_payload, customer_keys, env) ==
    LET r == env.response
    IN  IF ~env.llm_enabled THEN LlmNone
        ELSE IF env.client = "none" \/ pdf_bytes_empty \/ customer_keys = <<>> THEN LlmNone
        ELSE IF env.client = "no_responses_api" THEN LlmNone
        ELSE IF r.kind \in {"transport_error", "not_json", "json_non_object"}
             THEN LlmNone   \* caught by "except Exception"
        ELSE IF r.kind = "empty_text" \/ r.mappings_kind \in {"absent", "falsy"}
             THEN LlmList(<<>>)
        ELSE IF r.mappings_kind = "number" THEN LlmRaised("TypeError")
        ELSE LlmLoop(r.elems, <<>>)

\* The loop of build_mapping_for_customer_with_strategy over llm_raw.
ResolveLlmEntry(m, customer_dict_full) ==
    LET field_ref == Strip(IF Truthy(m.field_id) THEN m.field_id
                           ELSE IF Truthy(m.template_field) THEN m.template_field ELSE <<>>)
        ck == m.customer_key
        fill == /\ Truthy(field_ref)
                /\ Truthy(ck)
                /\ ck \in DOMAIN customer_dict_full
                /\ customer_dict_full[ck] # None
                /\ Strip(customer_dict_full[ck]) # <<>>
    IN  MappingEntry(field_ref, ck,
                     IF fill THEN customer_dict_full[ck] ELSE None,
                     m.confidence,
                     IF fill THEN "filled" ELSE "missing",
                     field_ref)

\* The fallback branch: field_id is set to template_field.
FallbackWithFieldId(field_names, customer) ==
    LET fallback == build_fallback_mapping_for_customer(field_names, customer)
    IN  [i \in 1..Len(fallback) |-> [fallback[i] EXCEPT !.field_id = fallback[i].template_field]]

\* build_mapping_for_customer_with_strategy: [raised, strategy, mappings, llm_requests].
build_mapping_for_customer_with_strategy(field_names, customer, pdf_bytes_empty, env) ==
    LET llm_raw == build_llm_mapping_for_customer(pdf_bytes_empty,
                                                   build_customer_payload(customer),
                                                   allowed_keys, env)
        requests == LlmRequests(pdf_bytes_empty, allowed_keys, env)
    IN  IF llm_raw.raised # "none"
        THEN [raised |-> llm_raw.raised, strategy |-> "", mappings |-> <<>>,
              llm_requests |-> requests]
        ELSE IF ~llm_raw.is_none /\ llm_raw.value # <<>>
        THEN [raised |-> "none", strategy |-> "llm_gpt52",
              mappings |-> [i \in 1..Len(llm_raw.value) |->
                               ResolveLlmEntry(llm_raw.value[i], ModelToDict(customer))],
              llm_requests |-> requests]
        ELSE [raised |-> "none", strategy |-> "fallback_mapping",
              mappings |-> FallbackWithFieldId(field_names, customer),
              llm_requests |-> requests]

-----------------------------------------------------------------------------
(* documents/autofill.py: conflict resolution                              *)

Fillable(m) == m.status = "filled" /\ m.value # None /\ Strip(m.template_field) # <<>>

\* ValueDictStep whose conflict record always names the earlier entry as kept
\* and the later one as dropped, whichever of them stays in best.
ValueDictStepRecordsPrevAsKept(st, m) ==
    LET key == Strip(m.template_field)
        best == st.best
    IN  IF ~(m.status = "filled" /\ m.value # None) THEN st
        ELSE IF key = <<>> THEN st
        ELSE IF key \notin DOMAIN best
             THEN [st EXCEPT !.best = [k \in DOMAIN best \cup {key} |->
                                          IF k = key THEN m ELSE best[k]]]
        ELSE IF best[key].value = m.value
             THEN IF m.confidence > best[key].confidence
                  THEN [st EXCEPT !.best[key] = m]
                  ELSE st
        ELSE LET swap == m.confidence > best[key].confidence
                 keep == best[key]
                 drop == m
             IN  [best |-> IF swap THEN [best EXCEPT ![key] = m] ELSE best,
                  conflicts |-> Append(st.conflicts,
                      [field_name |-> key,
                       kept |-> [field_ref |-> keep.field_id, customer_key |-> keep.customer_key,
                                 value |-> keep.value, confidence |-> keep.confidence],
                       dropped |-> [field_ref |-> drop.field_id, customer_key |-> drop.customer_key,
                                    value |-> drop.value, confidence |-> drop.confidence]])]

\* ValueDictStep with ">=" for ">": on equal confidence the later entry wins.
ValueDictStepLastWins(st, m) ==
    LET key == Strip(m.template_field)
        best == st.best
    IN  IF ~(m.status = "filled" /\ m.value # None) THEN st
        ELSE IF key = <<>> THEN st
        ELSE IF key \notin DOMAIN best
             THEN [st EXCEPT !.best = [k \in DOMAIN best \cup {key} |->
                                          IF k = key THEN m ELSE best[k]]]
        ELSE IF m.confidence >= best[key].confidence
             THEN [st EXCEPT !.best[key] = m]
             ELSE st

\* The loop of _build_value_dict_from_mappings; st is [best, conflicts],
\* best a function from field name to the entry kept.
ValueDictStep(st, m) ==
    LET key == Strip(m.template_field)
        best == st.best
    IN  IF ~(m.status = "filled" /\ m.value # None) THEN st
        ELSE IF key = <<>> THEN st
        ELSE IF key \notin DOMAIN best
             THEN [st EXCEPT !.best = [k \in DOMAIN best \cup {key} |->
                                          IF k = key THEN m ELSE best[k]]]
        ELSE IF best[key].value = m.value
             THEN IF m.confidence > best[key].confidence
                  THEN [st EXCEPT !.best[key] = m]
                  ELSE st
        ELSE LET swap == m.confidence > best[key].confidence
                 keep == IF swap THEN m ELSE best[key]
                 drop == IF swap THEN best[key] ELSE m
             IN  [best |-> IF swap THEN [best EXCEPT ![key] = m] ELSE best,
                  conflicts |-> Append(st.conflicts,
                      [field_name |-> key,
                       kept |-> [field_ref |-> keep.field_id, customer_key |-> keep.customer_key,
                                 value |-> keep.value, confidence |-> keep.confidence],
                       dropped |-> [field_ref |-> drop.field_id, customer_key |-> drop.customer_key,
                                    value |-> drop.value, confidence |-> drop.confidence]])]

RECURSIVE ValueDictLoop(_, _)
ValueDictLoop(mappings, st) ==
    IF mappings = <<>> THEN st
    ELSE ValueDictLoop(Tail(mappings), ValueDictStep(st, Head(mappings)))

\* _build_value_dict_from_mappings: [value_dict, conflicts].
build_value_dict_from_mappings(mappings) ==
    LET fin == ValueDictLoop(mappings, [best |-> <<>>, conflicts |-> <<>>])
    IN  [value_dict |-> [k \in {f \in DOMAIN fin.best : fin.best[f].value # None} |->
                            fin.best[k].value],
         conflicts |-> fin.conflicts]

-----------------------------------------------------------------------------
(* Files, PDF documents and the renderers of documents/autofill.py         *)
(*                                                                         *)
(* A FieldFile is [name, content]; it is falsy when its name is empty.     *)
(* The content of a file is what its bytes are:                            *)
(*   kind    "pdf", "docx", "docx_bad" (a DOCX docxtpl cannot render),     *)
(*           "garbage" (no PDF, no DOCX) or "missing" (not in storage)     *)
(*   pages   of a PDF: the number of pages                                 *)
(*   fields  of a PDF: the AcroForm field names, in reader.get_fields()    *)
(*           order; every field is a text field with a widget on a page    *)
(*   values  of a PDF: the /V of each field (None: empty)                  *)

FileContent(kind, pages, fields, values) ==
    [kind |-> kind, pages |-> pages, fields |-> fields, values |-> values]

NoFile == [name |-> <<>>, content |-> FileContent("missing", 0, <<>>, <<>>)]

EndsWith(s, suffix) ==
    /\ Len(s) >= Len(suffix)
    /\ SubSeq(s, Len(s) - Len(suffix) + 1, Len(s)) = suffix

Ext_pdf == <<".","p","d","f">>

Ext_docx == <<".","d","o","c","x">>

W_customer_ == <<"c","u","s","t","o","m","e","r","_">>

W__template_ == <<"_","t","e","m","p","l","a","t","e","_">>

W__document_ == <<"_","d","o","c","u","m","e","n","t","_">>

W_customer_generated == <<"c","u","s","t","o","m","e","r","_","g","e","n","e","r","a","t","e","d","/">>

\* A mapping_report; NoReport is the null JSON field.
MappingReport(strategy, fields, fill_error) ==
    [strategy |-> strategy, fields |-> fields, fill_error |-> fill_error]

NoReport == MappingReport("", <<>>, "")

\* The "fields" list of a mapping report.
ReportFields(mappings) ==
    [i \in 1..Len(mappings) |->
        [field_ref |-> mappings[i].field_id, field_name |-> mappings[i].template_field,
         customer_key |-> mappings[i].customer_key, confidence |-> mappings[i].confidence,
         value |-> mappings[i].value, status |-> mappings[i].status]]

IsFillTarget(m) == m.status = "filled" /\ m.value # None

\* _safe_fill_pdf_form_fields(writer, {field: value}): the widgets whose field
\* name is in value_dict get /V = str(value); an error text when none was updated.
safe_fill_pdf_form_fields(content, field, value) ==
    LET hit == {i \in 1..Len(content.fields) :
                   content.pages > 0 /\ content.fields[i] = field /\ value # None}
    IN  [err |-> IF hit = {} THEN "Keine Felder wurden aktualisiert" ELSE "",
         content |-> [content EXCEPT !.values =
                          [i \in 1..Len(content.values) |->
                              IF i \in hit THEN value ELSE content.values[i]]]]

\* The loop "for m in fill_targets": the entries are applied one by one, in order.
RECURSIVE FillLoop(_, _, _, _)
FillLoop(content, fill_targets, any_success, first_error) ==
    IF fill_targets = <<>>
    THEN [content |-> content,
          fill_error |-> IF any_success THEN "" ELSE first_error]
    ELSE LET m == Head(fill_targets)
             r == safe_fill_pdf_form_fields(content, m.template_field, m.value)
         IN  FillLoop(r.content, Tail(fill_targets), any_success \/ r.err = "",
                      IF first_error = "" THEN r.err ELSE first_error)

Raised(exc) == [raised |-> exc, content |-> FileContent("missing", 0, <<>>, <<>>),
                mapping_report |-> NoReport, ext |-> <<>>, llm_requests |-> 0]

\* An exception raised after the mapping step made its LLM requests.
RaisedAfter(exc, requests) ==
    [raised |-> exc, content |-> FileContent("missing", 0, <<>>, <<>>),
     mapping_report |-> NoReport, ext |-> <<>>, llm_requests |-> requests]

Rendered(content, report, ext, requests) ==
    [raised |-> "none", content |-> content, mapping_report |-> report, ext |-> ext,
     llm_requests |-> requests]

\* What reading the file as a PDF raises ("none": PdfReader and get_fields succeed).
PdfReadRaises(file) ==
    CASE file.content.kind = "missing" -> "FileNotFoundError"
      [] file.content.kind # "pdf" -> "PdfReadError"
      [] OTHER -> "none"

\* What docxtpl raises on the file ("none": it renders).
DocxRenderRaises(file) ==
    CASE file.content.kind = "missing" -> "FileNotFoundError"
      [] file.content.kind = "docx_bad" -> "TemplateError"
      [] file.content.kind # "docx" -> "BadZipFile"
      [] OTHER -> "none"

\* field_names = [name for name in fields.keys() if name]
FieldNamesOf(content) == SelectSeq(content.fields, LAMBDA n : n # <<>>)

\* _render_docx_template; env is [pypdf, docxtpl, llm].
render_docx_template(template, customer, env) ==
    IF ~env.docxtpl THEN Raised("RuntimeError")
    ELSE IF template.file.name = <<>> THEN Raised("ValueError")
    ELSE IF DocxRenderRaises(template.file) # "none" THEN Raised(DocxRenderRaises(template.file))
    ELSE Rendered(FileContent("docx", 0, <<>>, <<>>),
                  MappingReport("context_customer_full", <<>>, ""), <<"d","o","c","x">>, 0)

\* _render_pdf_acroform_template. out_buf is bound only inside
\* "if writer.pages and fill_targets:", and the function ends with out_buf.getvalue().
render_pdf_acroform_template(template, customer, env) ==
    IF ~env.pypdf THEN Raised("RuntimeError")
    ELSE IF template.file.name = <<>> THEN Raised("ValueError")
    ELSE IF PdfReadRaises(template.file) # "none" THEN Raised(PdfReadRaises(template.file))
    ELSE IF FieldNamesOf(template.file.content) = <<>>
    THEN Rendered(template.file.content, MappingReport("no_acroform", <<>>, ""), <<"p","d","f">>, 0)
    ELSE Bind(build_mapping_for_customer_with_strategy(
                  FieldNamesOf(template.file.content), customer, FALSE, env.llm),
              LAMBDA m :
         Bind(SelectSeq(m.mappings, IsFillTarget), LAMBDA fill_targets :
             IF m.raised # "none" THEN RaisedAfter(m.raised, m.llm_requests)
             ELSE IF template.file.content.pages > 0 /\ fill_targets # <<>>
             THEN Bind(FillLoop(template.file.content, fill_targets, FALSE, ""), LAMBDA filled :
                      Rendered(filled.content,
                               MappingReport(m.strategy, ReportFields(m.mappings), filled.fill_error),
                               <<"p","d","f">>, m.llm_requests))
             ELSE RaisedAfter("UnboundLocalError", m.llm_requests)))

\* A row of documents_customerdocument.
Document(broker, customer, template, uploaded, generated, status, report) ==
    [broker |-> broker, customer |-> customer, template |-> template,
     uploaded_file |-> uploaded, generated_file |-> generated, status |-> status,
     mapping_report |-> report]

\* run_autofill_for_customer(template, customer): [raised, doc, llm_requests], doc the
\* CustomerDocument it saves. template and customer are rows with their pk as id.
run_autofill_for_customer(template, customer, env) ==
    Bind(CASE template.type = "DOCX" -> render_docx_template(template, customer, env)
           [] template.type = "PDF_ACROFORM" -> render_pdf_acroform_template(template, customer, env)
           [] OTHER -> Raised("ValueError"),
         LAMBDA r :
    Bind(W_customer_generated \o W_customer_ \o StrInt(customer.id) \o W__template_
            \o StrInt(template.id) \o <<".">> \o r.ext,
         LAMBDA filename :
        [raised |-> r.raised,
         llm_requests |-> r.llm_requests,
         doc |-> Document(customer.broker, customer.id, template.id, NoFile,
                          [name |-> filename, content |-> r.content], "draft", r.mapping_report)]))

\* The PDF branch of run_autofill_for_document: out_buf is bound after the if/else.
RefillPdf(file, customer, env) ==
    IF ~env.pypdf THEN Raised("RuntimeError")
    ELSE IF PdfReadRaises(file) # "none" THEN Raised(PdfReadRaises(file))
    ELSE IF FieldNamesOf(file.content) = <<>>
    THEN Rendered(file.content, MappingReport("no_acroform", <<>>, ""), <<"p","d","f">>, 0)
    ELSE Bind(build_mapping_for_customer_with_strategy(
                  FieldNamesOf(file.content), customer, FALSE, env.llm),
              LAMBDA m :
         Bind(SelectSeq(m.mappings, IsFillTarget), LAMBDA fill_targets :
         Bind(IF file.content.pages > 0 /\ fill_targets # <<>>
              THEN FillLoop(file.content, fill_targets, FALSE, "")
              ELSE [content |-> file.content, fill_error |-> ""],
              LAMBDA filled :
             IF m.raised # "none" THEN RaisedAfter(m.raised, m.llm_requests)
             ELSE Rendered(filled.content,
                           MappingReport(m.strategy, ReportFields(m.mappings), filled.fill_error),
                           <<"p","d","f">>, m.llm_requests))))

\* The DOCX branch of run_autofill_for_document.
RefillDocx(file, customer, env) ==
    IF ~env.docxtpl THEN Raised("RuntimeError")
    ELSE IF DocxRenderRaises(file) # "none" THEN Raised(DocxRenderRaises(file))
    ELSE Rendered(FileContent("docx", 0, <<>>, <<>>),
                  MappingReport("context_customer_full", <<>>, ""), <<"d","o","c","x">>, 0)

\* BaseFile with the two files swapped: the upload is preferred.
BaseFilePrefersUpload(document) ==
    IF document.uploaded_file.name # <<>> THEN document.uploaded_file ELSE document.generated_file

\* file_field = document.generated_file or document.uploaded_file
BaseFile(document) ==
    IF document.generated_file.name # <<>> THEN document.generated_file ELSE document.uploaded_file

\* run_autofill_for_document(document, customer): [raised, doc, llm_requests], doc the
\* row as it is saved (the row unchanged when the call raises). pk is document.pk.
run_autofill_for_document(pk, document, customer, env) ==
    Bind(BaseFile(document), LAMBDA file_field :
    Bind(Lower(file_field.name), LAMBDA name :
    Bind(IF file_field.name = <<>> THEN Raised("ValueError")
         ELSE IF EndsWith(name, Ext_docx) THEN RefillDocx(file_field, customer, env)
         ELSE IF EndsWith(name, Ext_pdf) THEN RefillPdf(file_field, customer, env)
         ELSE Raised("ValueError"),
         LAMBDA r :
    Bind(W_customer_generated \o W_customer_ \o StrInt(customer.id) \o W__document_
            \o StrInt(pk) \o <<".">> \o r.ext,
         LAMBDA filename :
        [raised |-> r.raised,
         llm_requests |-> r.llm_requests,
         doc |-> IF r.raised # "none" THEN document
                 ELSE [document EXCEPT !.status = "draft",
                                       !.mapping_report = r.mapping_report,
                                       !.generated_file = [name |-> filename, content |-> r.content]]]))))

-----------------------------------------------------------------------------
(* Bounded inputs                                                          *)

MaxFields == 2

MaxLlmMappings == 2

MaxMappings == 3

MaxLogs == 2

MaxRequests == 2

MaxNow == 2

\* All sequences over S of length at most n.
SeqsUpTo(S, n) == UNION {[1..k -> S] : k \in 0..n}

W_sp_Email_sp == <<" ","E","m","a","i","l"," ">>

W_x == <<"x">>

\* AcroForm field names (/T) a PDF may carry.
FieldNameUniverse == {W_email, W_sp_Email_sp, W_plz, W_id, W_x}

FullData ==
    [k \in DataKeys |->
        CASE k = W_first_name -> <<"F">>
          [] k = W_last_name -> <<"L">>
          [] k = W_email -> <<"e","@","x">>
          [] k = W_phone -> <<"5","5">>
          [] k = W_street -> <<"S","t","r"," ","1">>
          [] k = W_postal_code -> <<"8","0","1">>
          [] k = W_city -> <<"B">>
          [] k = W_employment_status -> <<"j","o","b">>
          [] k = W_monthly_income -> <<"9",".","0","0">>]

\* A profile as the broker first creates it: the optional fields blank, no income.
SparseData ==
    [k \in DataKeys |->
        CASE k = W_first_name -> <<"G">>
          [] k = W_last_name -> <<"M">>
          [] k = W_email -> <<"g","@","x">>
          [] k = W_monthly_income -> None
          [] OTHER -> <<>>]

CustomerUniverse ==
    {[id |-> 1, user |-> "c1", broker |-> "b1", status |-> "in_progress", data |-> FullData],
     [id |-> 2, user |-> NoUser, broker |-> "b2", status |-> "new", data |-> SparseData]}

RawElem(isobj, frk, fr, ckk, ck, cfk, cf) ==
    [isobj |-> isobj, field_ref_kind |-> frk, field_ref |-> fr, customer_key_kind |-> ckk,
     customer_key |-> ck, conf_kind |-> cfk, conf |-> cf]

\* Elements an LLM answer may hold under "mappings".
RawElemUniverse ==
    {RawElem(TRUE, "str", W_sp_Email_sp, "str", W_email, "num", 9),
     RawElem(TRUE, "str", W_plz, "str", <<" ">> \o W_phone, "num", 15),
     RawElem(TRUE, "str", W_x, "str", W_id, "invalid", 0),
     RawElem(TRUE, "str", W_email, "str", W_monthly_income, "num", -5),
     RawElem(TRUE, "absent", <<>>, "null", <<>>, "absent", 0),
     RawElem(TRUE, "null", <<>>, "null", <<>>, "nan", 0),
     RawElem(FALSE, "absent", <<>>, "null", <<>>, "absent", 0)}

LlmResponse(kind, mk, elems) == [kind |-> kind, mappings_kind |-> mk, elems |-> elems]

NoResponse == LlmResponse("transport_error", "absent", <<>>)

LlmResponseUniverse ==
    {LlmResponse(k, "absent", <<>>) :
        k \in {"transport_error", "empty_text", "not_json", "json_non_object", "json_object"}}
    \cup {LlmResponse("json_object", mk, <<>>) : mk \in {"falsy", "number"}}
    \cup {LlmResponse("json_object", "list", e) : e \in SeqsUpTo(RawElemUniverse, MaxLlmMappings)}

LlmEnv(enabled, client, fte, response) ==
    [llm_enabled |-> enabled, client |-> client, first_type_error |-> fte, response |-> response]

\* The environments of a call: those that never reach the API carry no response.
LlmEnvUniverse ==
    {LlmEnv(FALSE, "ok", FALSE, NoResponse), LlmEnv(TRUE, "none", FALSE, NoResponse),
     LlmEnv(TRUE, "no_responses_api", FALSE, NoResponse)}
    \cup {LlmEnv(TRUE, "ok", fte, r) : fte \in BOOLEAN, r \in LlmResponseUniverse}

\* The arguments of a mapping call.
MappingArgs(f, c, e, v) ==
    [field_names |-> f, customer |-> c, pdf_bytes_empty |-> e, env |-> v]

NoResult == [raised |-> "none"]

-----------------------------------------------------------------------------
(* The mapping functions applied to bounded inputs                         *)

\* The tables a specification of pure calls does not touch.
IdleWeb == profiles = <<>> /\ templates = <<>> /\ invites = <<>> /\ accounts = <<>>

IdleReminders == rules = <<>> /\ logs = <<>> /\ now = 0 /\ nreq = 0

IdleTables == documents = <<>> /\ next_doc_pk = 1 /\ IdleWeb /\ IdleReminders

InitMapping ==
    /\ pc = "start"
    /\ \E f \in SeqsUpTo(FieldNameUniverse, MaxFields), c \in CustomerUniverse,
          e \in BOOLEAN, v \in LlmEnvUniverse :
          /\ e => v = LlmEnv(TRUE, "ok", FALSE, NoResponse)
          /\ args = MappingArgs(f, c, e, v)
    /\ result = NoResult
    /\ IdleTables

CallBuildLlmMapping ==
    /\ pc = "start"
    /\ pc' = "build_llm_mapping_for_customer"
    /\ result' = build_llm_mapping_for_customer(args.pdf_bytes_empty,
                       build_customer_payload(args.customer), allowed_keys, args.env)
    /\ UNCHANGED <<args, docVars, webVars, remVars, nreq>>

CallBuildMappingWithStrategy ==
    /\ pc = "start"
    /\ pc' = "build_mapping_for_customer_with_strategy"
    /\ result' = build_mapping_for_customer_with_strategy(args.field_names, args.customer,
                       args.pdf_bytes_empty, args.env)
    /\ UNCHANGED <<args, docVars, webVars, remVars, nreq>>

NextMapping == CallBuildLlmMapping \/ CallBuildMappingWithStrategy

SpecMapping == InitMapping /\ [][NextMapping]_vars

(* C2 (as stated): build_mapping_for_customer_with_strategy returns, in      *)
(* every case, 'llm_gpt52' exactly when build_llm_mapping_for_customer       *)
(* returned a non-empty list, and otherwise 'fallback_mapping' with one      *)
(* entry per input field name, in input order, field_id = template_field;    *)
(* with AUTOFILL_LLM_ENABLED false no LLM request is made.                   *)
C2_StrategyContract ==
    pc = "build_mapping_for_customer_with_strategy" =>
        LET llm == build_llm_mapping_for_customer(args.pdf_bytes_empty,
                       build_customer_payload(args.customer), allowed_keys, args.env)
            llm_nonempty == llm.raised = "none" /\ ~llm.is_none /\ llm.value # <<>>
        IN  /\ result.raised = "none"
            /\ result.strategy \in {"llm_gpt52", "fallback_mapping"}
            /\ (result.strategy = "llm_gpt52") <=> llm_nonempty
            /\ result.strategy = "fallback_mapping" =>
                  /\ Len(result.mappings) = Len(args.field_names)
                  /\ \A i \in 1..Len(result.mappings) :
                        /\ result.mappings[i].template_field = Strip(args.field_names[i])
                        /\ result.mappings[i].field_id = result.mappings[i].template_field
            /\ ~args.env.llm_enabled => result.llm_requests = 0

(* C3 (as stated): build_llm_mapping_for_customer returns None or a list    *)
(* of MappingEntry for every outcome of the LLM call and never lets an      *)
(* exception propagate to the caller.                                       *)
C3_NoExceptionPropagates ==
    pc = "build_llm_mapping_for_customer" => result.raised = "none"

(* C15 (as stated): every mapping entry with status 'filled' returned by     *)
(* build_mapping_for_customer_with_strategy, by the LLM strategy or by the   *)
(* fallback strategy, has a customer_key in the allowed list; the internal   *)
(* profile attributes id, user, broker and status are never used as a fill   *)
(* value, whatever customer_key the LLM returns and whatever the field names *)
(* are.                                                                      *)
C15_OnlyAllowedKeysFilled ==
    (pc = "build_mapping_for_customer_with_strategy" /\ result.raised = "none") =>
        \A i \in 1..Len(result.mappings) :
            result.mappings[i].status = "filled" =>
                \E k \in 1..Len(allowed_keys) : result.mappings[i].customer_key = allowed_keys[k]

-----------------------------------------------------------------------------
(* _build_value_dict_from_mappings applied to bounded inputs               *)

W_a == <<"a">>

W_a_sp == <<"a"," ">>

W_b == <<"b">>

\* Mapping entries: the fillable ones over two field names (one of them also
\* written with a trailing blank), two values and two confidences, and one
\* entry of each kind that is not fillable.
EntryUniverse ==
    {MappingEntry(f, W_email, v, c, "filled", f) :
        f \in {W_a, W_a_sp, W_b}, v \in {<<"X">>, <<"Y">>}, c \in {5, 9}}
    \cup {MappingEntry(W_a, W_email, <<"Z">>, 10, "missing", W_a),
          MappingEntry(W_a, W_email, None, 10, "filled", W_a),
          MappingEntry(<<" ">>, W_email, <<"Z">>, 10, "filled", <<" ">>)}

InitValueDict ==
    /\ pc = "start"
    /\ args \in {[mappings |-> m] : m \in SeqsUpTo(EntryUniverse, MaxMappings)}
    /\ result = NoResult
    /\ IdleTables

CallBuildValueDict ==
    /\ pc = "start"
    /\ pc' = "_build_value_dict_from_mappings"
    /\ result' = build_value_dict_from_mappings(args.mappings)
    /\ UNCHANGED <<args, docVars, webVars, remVars, nreq>>

NextValueDict == CallBuildValueDict

SpecValueDict == InitValueDict /\ [][NextValueDict]_vars

\* The positions of the fillable entries of field f.
FillableAt(ms, f) == {i \in 1..Len(ms) : Fillable(ms[i]) /\ Strip(ms[i].template_field) = f}

\* The first position, among those of I, whose entry has the greatest confidence.
FirstMax(ms, I) ==
    CHOOSE i \in I :
        /\ \A j \in I : ms[j].confidence <= ms[i].confidence
        /\ \A j \in I : ms[j].confidence = ms[i].confidence => i <= j

(* C8: value_dict maps every field name with a fillable entry to the value   *)
(* of the first entry, in input order, of maximum confidence among that      *)
(* field's fillable entries; a field name without a fillable entry is        *)
(* absent; entries that are not fillable do not influence the result.        *)
C8_ValueDictFirstMax ==
    pc = "_build_value_dict_from_mappings" =>
        LET ms == args.mappings
            vd == result.value_dict
            names == {Strip(ms[i].template_field) : i \in 1..Len(ms)}
        IN  /\ DOMAIN vd = {f \in names : FillableAt(ms, f) # {}}
            /\ \A f \in DOMAIN vd : vd[f] = ms[FirstMax(ms, FillableAt(ms, f))].value
            /\ result = build_value_dict_from_mappings(SelectSeq(ms, Fillable))

\* Two fillable entries of one field, equal in confidence and different in
\* value, no entry of the field above them, and an entry that is not fillable.
C8_Witness ==
    /\ pc = "_build_value_dict_from_mappings"
    /\ \E i, j \in 1..Len(args.mappings) :
          LET ms == args.mappings
              f == Strip(ms[i].template_field)
          IN  /\ i < j
              /\ {i, j} \subseteq FillableAt(ms, f)
              /\ ms[i].confidence = ms[j].confidence
              /\ ms[i].value # ms[j].value
              /\ \A k \in FillableAt(ms, f) : ms[k].confidence <= ms[i].confidence
              /\ result.value_dict[f] = ms[i].value
    /\ \E k \in 1..Len(args.mappings) : ~Fillable(args.mappings[k])

\* The positions before i of the fillable entries of the field of entry i.
EarlierOfField(ms, i) == {j \in FillableAt(ms, Strip(ms[i].template_field)) : j < i}

\* The positions whose entry is fillable and differs in value from the entry
\* kept for its field when the loop reaches it.
ConflictAt(ms) ==
    {i \in 1..Len(ms) :
        /\ Fillable(ms[i])
        /\ EarlierOfField(ms, i) # {}
        /\ ms[FirstMax(ms, EarlierOfField(ms, i))].value # ms[i].value}

\* The k-th position of I in input order.
NthOf(I, k) == CHOOSE i \in I : Cardinality({j \in I : j < i}) = k - 1

\* What a conflict record says of one entry.
ConflictSide(m) ==
    [field_ref |-> m.field_id, customer_key |-> m.customer_key,
     value |-> m.value, confidence |-> m.confidence]

(* C18: a conflict record is appended exactly when a fillable entry differs  *)
(* in value from the entry kept so far for the same field, in input order;   *)
(* the record's kept side is the one of the two with the greater confidence  *)
(* (the earlier one on a tie), so kept.confidence >= dropped.confidence and  *)
(* kept.value # dropped.value, and both sides are entries of the recorded    *)
(* field name; conflicts is empty iff the fillable entries of every field    *)
(* agree on the value.                                                       *)
C18_ConflictRecords ==
    pc = "_build_value_dict_from_mappings" =>
        LET ms == args.mappings
            cs == result.conflicts
            at == ConflictAt(ms)
        IN  /\ Len(cs) = Cardinality(at)
            /\ \A k \in 1..Len(cs) :
                  LET i == NthOf(at, k)
                      p == FirstMax(ms, EarlierOfField(ms, i))
                      later == ms[i].confidence > ms[p].confidence
                  IN  /\ cs[k].field_name = Strip(ms[i].template_field)
                      /\ cs[k].field_name = Strip(ms[p].template_field)
                      /\ cs[k].kept = ConflictSide(IF later THEN ms[i] ELSE ms[p])
                      /\ cs[k].dropped = ConflictSide(IF later THEN ms[p] ELSE ms[i])
                      /\ cs[k].kept.confidence >= cs[k].dropped.confidence
                      /\ cs[k].kept.value # cs[k].dropped.value
            /\ cs = <<>> <=>
                  \A i, j \in 1..Len(ms) :
                      (Fillable(ms[i]) /\ Fillable(ms[j])
                          /\ Strip(ms[i].template_field) = Strip(ms[j].template_field))
                      => ms[i].value = ms[j].value

\* Three fillable entries of one field: the second differs from the first and
\* has the greater confidence, so it is recorded as kept; the third agrees
\* with the first and differs from the second, so a second conflict follows.
C18_Witness ==
    /\ pc = "_build_value_dict_from_mappings"
    /\ Len(args.mappings) = 3
    /\ Len(result.conflicts) = 2
    /\ LET ms == args.mappings
       IN  /\ ms[1].value = ms[3].value
           /\ ms[2].confidence > ms[1].confidence
           /\ result.conflicts[1].kept = ConflictSide(ms[2])
           /\ result.conflicts[1].dropped = ConflictSide(ms[1])
           /\ result.conflicts[2].kept = ConflictSide(ms[2])
           /\ result.conflicts[2].dropped = ConflictSide(ms[3])

-----------------------------------------------------------------------------
(* run_autofill_for_customer and run_autofill_for_document on bounded inputs *)

Pdf_email == FileContent("pdf", 1, <<W_email>>, <<None>>)

Pdf_x == FileContent("pdf", 1, <<W_x>>, <<None>>)

Pdf_income == FileContent("pdf", 1, <<W_monthly_income, W_sp_Email_sp>>, <<None, <<"o","l","d">>>>)

Pdf_nofields == FileContent("pdf", 1, <<>>, <<>>)

Pdf_nopages == FileContent("pdf", 0, <<W_email>>, <<None>>)

N_t_pdf == <<"t",".","p","d","f">>

N_T_PDF == <<"T",".","P","D","F">>

N_t_docx == <<"t",".","d","o","c","x">>

N_t_txt == <<"t",".","t","x","t">>

\* Files a template or a document may carry.
FileUniverse ==
    {[name |-> N_t_pdf, content |-> c] :
        c \in {Pdf_email, Pdf_x, Pdf_income, Pdf_nofields, Pdf_nopages,
               FileContent("garbage", 0, <<>>, <<>>), FileContent("missing", 0, <<>>, <<>>)}}
    \cup {[name |-> N_T_PDF, content |-> Pdf_email],
          [name |-> N_t_docx, content |-> FileContent("docx", 0, <<>>, <<>>)],
          [name |-> N_t_docx, content |-> FileContent("docx_bad", 0, <<>>, <<>>)],
          [name |-> N_t_txt, content |-> FileContent("garbage", 0, <<>>, <<>>)],
          NoFile}

\* Elements of an LLM answer that all name the field "email", with different
\* customer keys and confidences.
DuplicateElemUniverse ==
    {RawElem(TRUE, "str", W_email, "str", W_email, "num", 9),
     RawElem(TRUE, "str", W_email, "str", W_phone, "num", 5),
     RawElem(TRUE, "str", W_email, "str", W_city, "num", 9)}

\* LLM environments of the autofill calls: the feature switched off, a failed
\* request, answers with one element of each kind, and answers with two
\* different elements for one field, in either order.
AutofillLlmEnvUniverse ==
    {LlmEnv(FALSE, "ok", FALSE, NoResponse),
     LlmEnv(TRUE, "ok", FALSE, NoResponse),
     LlmEnv(TRUE, "ok", FALSE, LlmResponse("json_object", "number", <<>>))}
    \cup {LlmEnv(TRUE, "ok", FALSE, LlmResponse("json_object", "list", <<e>>)) :
            e \in RawElemUniverse}
    \cup {LlmEnv(TRUE, "ok", FALSE, LlmResponse("json_object", "list", p)) :
            p \in {q \in [1..2 -> DuplicateElemUniverse] : q[1] # q[2]}}

AutofillEnvUniverse ==
    {[pypdf |-> p, docxtpl |-> d, llm |-> l] :
        p \in BOOLEAN, d \in BOOLEAN, l \in AutofillLlmEnvUniverse}

\* A DocumentTemplate row; field_schema None is the null JSON field.
Template(id, broker, type, file) ==
    [id |-> id, broker |-> broker, type |-> type, file |-> file, field_schema |-> None]

NoTemplate == Template(0, "b1", "DOCX", NoFile)

SomeReport == MappingReport("no_acroform", <<>>, "")

\* Files an existing document may carry.
DocumentFileUniverse ==
    {f \in FileUniverse : f.content \notin {Pdf_nofields, Pdf_nopages}}

\* Arguments of one call of run_autofill_for_customer: any template of the
\* customer's broker, with the table empty or holding one earlier document.
AutofillForCustomerArgs(ty, f, c, e, d) ==
    [op |-> "run_autofill_for_customer", template |-> Template(1, c.broker, ty, f),
     document_pk |-> 0, customer |-> c, env |-> e, documents0 |-> d]

\* Arguments of one call of run_autofill_for_document on document 1 of customer c.
AutofillForDocumentArgs(u, g, st, c, e) ==
    [op |-> "run_autofill_for_document", template |-> NoTemplate,
     document_pk |-> 1, customer |-> c, env |-> e,
     documents0 |-> <<Document(c.broker, c.id, 0, u, g, st,
                               IF st = "draft" THEN NoReport ELSE SomeReport)>>]

InitAutofill ==
    /\ pc = "start"
    /\ result = NoResult
    /\ \E c \in CustomerUniverse, e \in AutofillEnvUniverse :
          \/ \E ty \in {"DOCX", "PDF_ACROFORM"}, f \in FileUniverse,
                d \in {<<>>, <<Document("b1", 1, 0, NoFile, NoFile, "sent", NoReport)>>} :
                  args = AutofillForCustomerArgs(ty, f, c, e, d)
          \/ \E u \in DocumentFileUniverse, g \in DocumentFileUniverse, st \in {"draft", "sent"} :
                  args = AutofillForDocumentArgs(u, g, st, c, e)
    /\ documents = args.documents0
    /\ next_doc_pk = Len(args.documents0) + 1
    /\ IdleWeb
    /\ IdleReminders

CallRunAutofillForCustomer ==
    /\ pc = "start"
    /\ args.op = "run_autofill_for_customer"
    /\ \E r \in {run_autofill_for_customer(args.template, args.customer, args.env)} :
           /\ result' = [raised |-> r.raised, llm_requests |-> r.llm_requests,
                         pk |-> IF r.raised = "none" THEN next_doc_pk ELSE 0]
           /\ documents' = IF r.raised = "none" THEN documents @@ (next_doc_pk :> r.doc)
                           ELSE documents
           /\ next_doc_pk' = IF r.raised = "none" THEN next_doc_pk + 1 ELSE next_doc_pk
    /\ pc' = "run_autofill_for_customer"
    /\ UNCHANGED <<args, webVars, remVars, nreq>>

CallRunAutofillForDocument ==
    /\ pc = "start"
    /\ args.op = "run_autofill_for_document"
    /\ \E pk \in {args.document_pk} :
        \E r \in {run_autofill_for_document(pk, documents[pk], args.customer, args.env)} :
           /\ result' = [raised |-> r.raised, llm_requests |-> r.llm_requests, pk |-> pk]
           /\ documents' = [documents EXCEPT ![pk] = r.doc]
    /\ pc' = "run_autofill_for_document"
    /\ UNCHANGED <<args, next_doc_pk, webVars, remVars, nreq>>

NextAutofill == CallRunAutofillForCustomer \/ CallRunAutofillForDocument

SpecAutofill == InitAutofill /\ [][NextAutofill]_vars

\* The mapping of the template's fields returns (no exception leaves the mapping step).
MappingReturns(content, customer, env) ==
    build_mapping_for_customer_with_strategy(FieldNamesOf(content), customer, FALSE, env.llm).raised
        = "none"

(* C1 (as stated): for a PDF_ACROFORM template whose PDF holds at least one  *)
(* form field, with pypdf available and the template file present,           *)
(* run_autofill_for_customer completes for every customer and every mapping  *)
(* outcome, also when no entry is fillable, and saves a CustomerDocument     *)
(* with status draft, a generated PDF and a mapping report that lists        *)
(* every mapping entry.                                                      *)
C1_AcroformAutofillCompletes ==
    ( /\ pc = "run_autofill_for_customer"
      /\ args.template.type = "PDF_ACROFORM"
      /\ args.env.pypdf
      /\ args.template.file.name # <<>>
      /\ args.template.file.content.kind = "pdf"
      /\ FieldNamesOf(args.template.file.content) # <<>>
      /\ MappingReturns(args.template.file.content, args.customer, args.env) )
    => /\ result.raised = "none"
       /\ result.pk \in DOMAIN documents
       /\ documents[result.pk].status = "draft"
       /\ documents[result.pk].customer = args.customer.id
       /\ documents[result.pk].generated_file.content.kind = "pdf"
       /\ Len(documents[result.pk].mapping_report.fields) =
             Len(build_mapping_for_customer_with_strategy(
                    FieldNamesOf(args.template.file.content), args.customer, FALSE,
                    args.env.llm).mappings)

\* The file a refill starts from, as the claim names it.
C9_Base(d) == IF d.generated_file.name # <<>> THEN d.generated_file ELSE d.uploaded_file

(* C9: run_autofill_for_document takes generated_file if present, otherwise  *)
(* uploaded_file, as the base; it raises ValueError when the document has    *)
(* neither file or when the (lower-cased) file name ends in neither .docx    *)
(* nor .pdf; whenever it raises, the document row (status, mapping_report,   *)
(* generated_file) is unchanged; on success it overwrites generated_file     *)
(* and mapping_report of that document, from the base file, sets status to   *)
(* draft and creates no new CustomerDocument.                                *)
C9_RefillInPlace ==
    pc = "run_autofill_for_document" =>
        LET d0 == args.documents0[args.document_pk]
            d1 == documents[args.document_pk]
            base == C9_Base(d0)
            lname == Lower(base.name)
        IN  /\ DOMAIN documents = DOMAIN args.documents0
            /\ next_doc_pk = Len(args.documents0) + 1
            /\ base.name = <<>> => result.raised = "ValueError"
            /\ (~EndsWith(lname, Ext_docx) /\ ~EndsWith(lname, Ext_pdf)) => result.raised = "ValueError"
            /\ result.raised # "none" => d1 = d0
            /\ result.raised = "none" =>
                  /\ d1.status = "draft"
                  /\ d1.mapping_report # NoReport
                  /\ d1.mapping_report.strategy \in
                        {"no_acroform", "fallback_mapping", "llm_gpt52", "context_customer_full"}
                  /\ d1.generated_file.name # <<>>
                  /\ d1.generated_file.content.kind = base.content.kind
                  /\ d1.generated_file.content.fields = base.content.fields
                  /\ EndsWith(d1.generated_file.name, Ext_pdf) <=> EndsWith(lname, Ext_pdf)
                  /\ d1.uploaded_file = d0.uploaded_file
                  /\ d1.customer = d0.customer /\ d1.broker = d0.broker /\ d1.template = d0.template

\* A sent document with an upload and a generated PDF of another kind is refilled:
\* a field of the generated file now holds a customer value.
C9_Witness ==
    /\ pc = "run_autofill_for_document"
    /\ result.raised = "none"
    /\ LET d0 == args.documents0[args.document_pk]
           d1 == documents[args.document_pk]
       IN  /\ d0.status = "sent"
           /\ d0.generated_file.name # <<>>
           /\ d0.uploaded_file.name # <<>>
           /\ d0.uploaded_file.content.kind # d0.generated_file.content.kind
           /\ d1.generated_file.content # d0.generated_file.content
           /\ d1.mapping_report # d0.mapping_report

\* The PDF an autofill call that returned has filled, and the PDF it started from.
C11_Filled == documents[result.pk].generated_file.content

C11_Source ==
    IF pc = "run_autofill_for_customer" THEN args.template.file.content
    ELSE C9_Base(args.documents0[args.document_pk]).content

(* C11 (as stated): when the mapping contains two or more fillable entries  *)
(* for the same PDF field with different values, the value that field holds *)
(* after _render_pdf_acroform_template, and after the PDF branch of         *)
(* run_autofill_for_document, is the value conflict resolution selects: the *)
(* value of the higher-confidence entry, the first one on equal confidence, *)
(* whatever the order of the entries.                                       *)
C11_FilledValueIsResolvedValue ==
    (/\ pc \in {"run_autofill_for_customer", "run_autofill_for_document"}
     /\ result.raised = "none"
     /\ C11_Filled.kind = "pdf"
     /\ FieldNamesOf(C11_Source) # <<>>) =>
        LET ms == build_mapping_for_customer_with_strategy(
                      FieldNamesOf(C11_Source), args.customer, FALSE, args.env.llm).mappings
            vd == build_value_dict_from_mappings(ms).value_dict
        IN  \A i \in 1..Len(C11_Filled.fields) :
                LET f == C11_Filled.fields[i]
                IN  (\E j, k \in FillableAt(ms, f) : ms[j].value # ms[k].value)
                        => C11_Filled.values[i] = vd[f]

-----------------------------------------------------------------------------
(* Reminders: reminders/models.py, reminders/brevo.py and the command      *)
(* send_due_reminders.  The subject and the body of a rule only shape the  *)
(* text of the email and are left out.                                     *)

ReminderRule(broker, days_after, brevo_template_id, enabled) ==
    [broker |-> broker, trigger_event |-> "DOCUMENT_SENT", days_after |-> days_after,
     brevo_template_id |-> brevo_template_id, enabled |-> enabled]

\* document = 0 and sent_at = -1 stand for NULL.
ReminderLog(broker, customer, document, rule, due_at, status) ==
    [broker |-> broker, customer |-> customer, document |-> document, rule |-> rule,
     due_at |-> due_at, status |-> status, sent_at |-> -1,
     provider_response_id |-> "", error_text |-> ""]

uses_brevo_template(rule) == Truthy(rule.brevo_template_id)

Digits == {"0", "1", "2", "3", "4", "5", "6", "7", "8", "9"}

\* int(s) of Python returns for a str s: blanks around, an optional sign, digits.
IntParses(s) ==
    /\ s # None
    /\ LET t == Strip(s)
           d == IF t # <<>> /\ t[1] \in {"+", "-"} THEN Tail(t) ELSE t
       IN  d # <<>> /\ \A i \in 1..Len(d) : d[i] \in Digits

\* What the HTTP request of send_email can meet.
ProviderOutcomes ==
    {"transport_error", "http_error", "accepted_json_object", "accepted_not_json",
     "accepted_json_not_object"}

\* The provider took the email over (HTTP 2xx).
ProviderAccepted(outcome) ==
    outcome \in {"accepted_json_object", "accepted_not_json", "accepted_json_not_object"}

send_email(outcome) ==
    CASE outcome = "transport_error" -> [raised |-> "BrevoEmailProviderError", id |-> ""]
      [] outcome = "http_error" -> [raised |-> "BrevoEmailProviderError", id |-> ""]
      [] outcome = "accepted_not_json" -> [raised |-> "none", id |-> ""]
      [] outcome = "accepted_json_object" -> [raised |-> "none", id |-> "messageId"]
      [] OTHER -> [raised |-> "AttributeError", id |-> ""]

mark_sent(log, provider_response_id, t) ==
    [log EXCEPT !.status = "sent", !.sent_at = t,
                !.provider_response_id = IF provider_response_id # "" THEN provider_response_id ELSE @]

mark_failed(log, error_text) ==
    [log EXCEPT !.status = "failed", !.error_text = error_text]

\* One pass of the loop body of handle for one log.
ProcessLog(log, rule, outcome, t) ==
    IF ~rule.enabled
    THEN [raised |-> "none", log |-> mark_failed(log, "Regel wurde deaktiviert."), sent |-> 0,
          failed |-> 1, asked |-> FALSE]
    ELSE IF uses_brevo_template(rule) /\ ~IntParses(rule.brevo_template_id)
    THEN [raised |-> "none", log |-> mark_failed(log, "Ungueltige Brevo Template-ID"), sent |-> 0,
          failed |-> 1, asked |-> FALSE]
    ELSE LET r == send_email(outcome)
         IN  CASE r.raised = "BrevoEmailProviderError" ->
                    [raised |-> "none", log |-> mark_failed(log, "BrevoEmailProviderError"),
                     sent |-> 0, failed |-> 1, asked |-> TRUE]
               [] r.raised = "none" ->
                    [raised |-> "none", log |-> mark_sent(log, r.id, t), sent |-> 1,
                     failed |-> 0, asked |-> TRUE]
               [] OTHER ->
                    [raised |-> r.raised, log |-> log, sent |-> 0, failed |-> 0, asked |-> TRUE]

RunReport(kind, gesendet, fehlgeschlagen, gesamt) ==
    [kind |-> kind, gesendet |-> gesendet, fehlgeschlagen |-> fehlgeschlagen, gesamt |-> gesamt]

RECURSIVE HandleLoop(_, _, _, _, _, _, _, _, _)
\* for log in pending_logs: ... ; an exception that is no BrevoEmailProviderError ends the run.
HandleLoop(order, tbl, rls, outcomes, t, total, sent_count, failed_count, asked) ==
    IF order = <<>>
    THEN [raised |-> "none", logs |-> tbl, asked |-> asked,
          report |-> RunReport("done", sent_count, failed_count, total)]
    ELSE LET i == Head(order)
             r == ProcessLog(tbl[i], rls[tbl[i].rule], outcomes[i], t)
             asked1 == IF r.asked THEN Append(asked, i) ELSE asked
         IN  IF r.raised # "none"
             THEN [raised |-> r.raised, logs |-> tbl, asked |-> asked1,
                   report |-> RunReport("none", 0, 0, 0)]
             ELSE HandleLoop(Tail(order), [tbl EXCEPT ![i] = r.log], rls, outcomes, t, total,
                             sent_count + r.sent, failed_count + r.failed, asked1)

\* PendingLogs without the filter on status.
PendingLogsAnyStatus(tbl, t) == {i \in DOMAIN tbl : tbl[i].due_at <= t}

\* ReminderLog.objects.filter(status=PENDING, due_at__lte=now)
PendingLogs(tbl, t) == {i \in DOMAIN tbl : tbl[i].status = "pending" /\ tbl[i].due_at <= t}

\* .order_by("due_at"): the database may return logs of equal due_at in any order.
DueOrders(tbl, t) ==
    LET S == PendingLogs(tbl, t)
    IN  {o \in [1..Cardinality(S) -> S] :
            /\ \A i, j \in 1..Cardinality(S) : i # j => o[i] # o[j]
            /\ \A i, j \in 1..Cardinality(S) : i < j => tbl[o[i]].due_at <= tbl[o[j]].due_at}

\* Command.handle
handle(configured, tbl, rls, t, outcomes, order) ==
    IF ~configured
    THEN [raised |-> "none", logs |-> tbl, asked |-> <<>>, report |-> RunReport("skipped", 0, 0, 0)]
    ELSE IF Len(order) = 0
    THEN [raised |-> "none", logs |-> tbl, asked |-> <<>>,
          report |-> RunReport("nothing_due", 0, 0, 0)]
    ELSE HandleLoop(order, tbl, rls, outcomes, t, Len(order), 0, 0, <<>>)

\* One run of "manage.py send_due_reminders", with BREVO_API_KEY set or not
\* (configured drawn from C) and one provider outcome from O for each due log.
SendDueRemindersWith(C, O) ==
    /\ \E configured \in C, order \in DueOrders(logs, now) :
         \E outcomes \in [PendingLogs(logs, now) -> O] :
            LET r == handle(configured, logs, rules, now, outcomes, order)
            IN  /\ logs' = r.logs
                /\ args' = [configured |-> configured, outcomes |-> outcomes, order |-> order,
                            logs0 |-> logs, now0 |-> now]
                /\ result' = [raised |-> r.raised, report |-> r.report, asked |-> r.asked]
    /\ pc' = "send_due_reminders"
    /\ UNCHANGED <<docVars, webVars, rules, now, nreq>>

SendDueReminders == SendDueRemindersWith(BOOLEAN, ProviderOutcomes)

\* Two brokers' rules: a plain one, a disabled one, one with a template id that
\* is no number and one with a template id that int() accepts.
RuleFixture ==
    <<ReminderRule("b1", 1, None, TRUE),
      ReminderRule("b1", 1, None, FALSE),
      ReminderRule("b2", 1, <<"x">>, TRUE),
      ReminderRule("b2", 1, <<" ", "7">>, TRUE)>>

ProfileFixture ==
    <<[id |-> 1, user |-> "c1", broker |-> "b1", status |-> "in_progress", data |-> FullData],
      [id |-> 2, user |-> NoUser, broker |-> "b2", status |-> "new", data |-> SparseData],
      [id |-> 3, user |-> NoUser, broker |-> "b1", status |-> "new", data |-> SparseData]>>

\* Rows of reminders_reminderlog.  No view and no command of the repository
\* inserts a row; the rows come from outside (fixtures, the shell).
LogUniverse ==
    {ReminderLog(RuleFixture[r].broker, IF RuleFixture[r].broker = "b1" THEN 1 ELSE 2, 0, r, d,
                 "pending") : r \in DOMAIN RuleFixture, d \in {0, 1, 2}}
    \cup {[ReminderLog("b1", 1, 0, 1, 0, "sent") EXCEPT !.sent_at = 0],
          mark_failed(ReminderLog("b1", 1, 0, 2, 0, "pending"), "Regel wurde deaktiviert.")}

\* A row of users_user. The accounts of the fixture: two brokers, the customer
\* of profile 1, and a customer account that is linked to no profile.
Account(email, role, password) == [email |-> email, role |-> role, password |-> password]

AccountFixture ==
    [u \in {"b1", "b2", "c1", "c2"} |->
        CASE u = "b1" -> Account(<<"b","1","@","x">>, "BROKER", "pw_b1")
          [] u = "b2" -> Account(<<"b","2","@","x">>, "BROKER", "pw_b2")
          [] u = "c1" -> Account(<<"e","@","x">>, "CUSTOMER", "pw_c1")
          [] u = "c2" -> Account(<<"c","2","@","x">>, "CUSTOMER", "pw_c2")]

InitRem ==
    /\ pc = "start"
    /\ args = <<>>
    /\ result = NoResult
    /\ documents = <<>> /\ next_doc_pk = 1
    /\ profiles = ProfileFixture /\ templates = <<>> /\ invites = <<>>
    /\ accounts = AccountFixture
    /\ rules = RuleFixture
    /\ logs \in SeqsUpTo(LogUniverse, MaxLogs)
    /\ now = 1
    /\ nreq = 0

NextRem == SendDueReminders

SpecRem == InitRem /\ [][NextRem]_vars

\* The provider was asked for log i of the run and took the email over.
C6_Accepted(i) ==
    LET rule == rules[args.logs0[i].rule]
    IN  /\ rule.enabled
        /\ uses_brevo_template(rule) => IntParses(rule.brevo_template_id)
        /\ ProviderAccepted(args.outcomes[i])

(* C6 (as stated): after a run of send_due_reminders with a configured       *)
(* provider, every log that was PENDING and due when the run started is      *)
(* SENT if its rule is enabled and the provider accepted the email and       *)
(* FAILED otherwise; every other log is unchanged; and the run reports       *)
(* gesendet + fehlgeschlagen = gesamt whenever something was due.            *)
C6_RunSettlesEveryDueLog ==
    (pc = "send_due_reminders" /\ args.configured) =>
        /\ DOMAIN logs = DOMAIN args.logs0
        /\ \A i \in DOMAIN logs :
              IF i \in PendingLogs(args.logs0, args.now0)
              THEN logs[i].status = IF C6_Accepted(i) THEN "sent" ELSE "failed"
              ELSE logs[i] = args.logs0[i]
        /\ PendingLogs(args.logs0, args.now0) # {} =>
              /\ result.report.kind = "done"
              /\ result.report.gesamt = Cardinality(PendingLogs(args.logs0, args.now0))
              /\ result.report.gesendet + result.report.fehlgeschlagen = result.report.gesamt

-----------------------------------------------------------------------------
(* The views: users/models.py, customers/views.py, "documents copy"/views.py, *)
(* reminders/views.py and core/views.py.  args is the request, result the    *)
(* response; a response names the rows it shows as pairs <<table, pk>>.      *)

Users == {"b1", "b2", "c1", "c2", "anon"}

\* User.role; the anonymous user has none.
Role(u) == IF u \in {"b1", "b2"} THEN "BROKER" ELSE IF u \in {"c1", "c2"} THEN "CUSTOMER" ELSE "none"

is_authenticated(u) == u # "anon"

\* BrokerRequiredMixin: LoginRequiredMixin, then test_func.
BrokerRequired(u) ==
    IF ~is_authenticated(u) THEN "redirect_login"
    ELSE IF Role(u) # "BROKER" THEN "forbidden" ELSE "pass"

\* The mixins of the customer's own views: LoginRequiredMixin, then test_func.
CustomerRequired(u) ==
    IF ~is_authenticated(u) THEN "redirect_login"
    ELSE IF Role(u) # "CUSTOMER" THEN "forbidden" ELSE "pass"

\* getattr(user, "customer_profile", None); 0 stands for None.
customer_profile(u) ==
    IF is_authenticated(u) /\ \E i \in DOMAIN profiles : profiles[i].user = u
    THEN CHOOSE i \in DOMAIN profiles : profiles[i].user = u
    ELSE 0

Response(status, shown, offered, autofill, raised) ==
    [status |-> status, shown |-> shown, offered |-> offered, autofill |-> autofill,
     raised |-> raised]

Answer(status) == Response(status, {}, {}, "none", "none")

Shows(status, shown) == Response(status, shown, {}, "none", "none")

Request(user, pk, form) == [user |-> user, pk |-> pk, form |-> form]

\* The rows of a table that belong to broker u, as pairs <<name, pk>>.
Owned(name, tbl, u) == {<<name, i>> : i \in {j \in DOMAIN tbl : tbl[j].broker = u}}

\* get_object_or_404 / get_object on a queryset filtered by broker.
Found(tbl, pk, u) == pk \in DOMAIN tbl /\ tbl[pk].broker = u

\* The key an INSERT gets: one more than the largest key of the table.
NextPk(tbl) ==
    IF DOMAIN tbl = {} THEN 1
    ELSE (CHOOSE i \in DOMAIN tbl : \A j \in DOMAIN tbl : j <= i) + 1

Insert(tbl, pk, row) == [i \in DOMAIN tbl \cup {pk} |-> IF i = pk THEN row ELSE tbl[i]]

Delete(tbl, pk) == [i \in DOMAIN tbl \ {pk} |-> tbl[i]]

\* The view ran: it is recorded with its request and its response.
Handled(view, request, response) ==
    /\ nreq < MaxRequests
    /\ pc' = view
    /\ args' = request
    /\ result' = response
    /\ nreq' = nreq + 1

\* The keys a request may address.
PkUniverse == {1, 2, 3, 4}

BlankData == [k \in DataKeys |-> IF k = W_monthly_income THEN None ELSE <<>>]

\* What a broker may post to CustomerProfileForm.
ProfileFormUniverse ==
    {[data |-> FullData, status |-> "complete"], [data |-> BlankData, status |-> "new"]}

\* first_name, last_name and email are required.
CustomerProfileFormValid(form) ==
    /\ Truthy(form.data[W_first_name])
    /\ Truthy(form.data[W_last_name])
    /\ Truthy(form.data[W_email])

CustomerListView ==
    \E u \in Users :
        /\ Handled("CustomerListView", Request(u, 0, <<>>),
                   IF BrokerRequired(u) # "pass" THEN Answer(BrokerRequired(u))
                   ELSE Shows("ok", Owned("profiles", profiles, u)))
        /\ UNCHANGED <<docVars, webVars, remVars>>

CustomerCreateView ==
    \E u \in Users, form \in ProfileFormUniverse :
        LET ok == BrokerRequired(u) = "pass" /\ CustomerProfileFormValid(form)
            pk == NextPk(profiles)
        IN  /\ Handled("CustomerCreateView", Request(u, 0, form),
                       IF BrokerRequired(u) # "pass" THEN Answer(BrokerRequired(u))
                       ELSE IF ok THEN Answer("redirect") ELSE Answer("form_invalid"))
            /\ profiles' = IF ok
                           THEN Insert(profiles, pk, [id |-> pk, user |-> NoUser, broker |-> u,
                                                      status |-> form.status, data |-> form.data])
                           ELSE profiles
            /\ UNCHANGED <<docVars, templates, invites, accounts, remVars>>

CustomerUpdateView ==
    \E u \in Users, pk \in PkUniverse, form \in ProfileFormUniverse :
        LET found == BrokerRequired(u) = "pass" /\ Found(profiles, pk, u)
            ok == found /\ CustomerProfileFormValid(form)
        IN  /\ Handled("CustomerUpdateView", Request(u, pk, form),
                       IF BrokerRequired(u) # "pass" THEN Answer(BrokerRequired(u))
                       ELSE IF ~found THEN Answer("not_found")
                       ELSE IF ok THEN Shows("redirect", {<<"profiles", pk>>})
                       ELSE Shows("form_invalid", {<<"profiles", pk>>}))
            /\ profiles' = IF ok
                           THEN [profiles EXCEPT ![pk].status = form.status, ![pk].data = form.data]
                           ELSE profiles
            /\ UNCHANGED <<docVars, templates, invites, accounts, remVars>>

CustomerDetailView ==
    \E u \in Users, pk \in PkUniverse :
        LET found == BrokerRequired(u) = "pass" /\ Found(profiles, pk, u)
        IN  /\ Handled("CustomerDetailView", Request(u, pk, <<>>),
                       IF BrokerRequired(u) # "pass" THEN Answer(BrokerRequired(u))
                       ELSE IF ~found THEN Answer("not_found")
                       ELSE Shows("ok",
                              {<<"profiles", pk>>}
                              \cup {<<"invites", i>> : i \in {j \in DOMAIN invites :
                                                                invites[j].customer = pk}}
                              \cup {<<"documents", i>> : i \in {j \in DOMAIN documents :
                                        documents[j].customer = pk /\ documents[j].broker = u}}))
            /\ UNCHANGED <<docVars, webVars, remVars>>

CustomerInviteCreateView ==
    \E u \in Users, pk \in PkUniverse :
        LET found == BrokerRequired(u) = "pass" /\ Found(profiles, pk, u)
            ipk == NextPk(invites)
        IN  /\ Handled("CustomerInviteCreateView", Request(u, pk, <<>>),
                       IF BrokerRequired(u) # "pass" THEN Answer(BrokerRequired(u))
                       ELSE IF ~found THEN Answer("not_found")
                       ELSE Shows("redirect", {<<"profiles", pk>>}))
            /\ invites' = IF found
                          THEN Insert(invites, ipk, [broker |-> u, customer |-> pk, token |-> ipk,
                                                     expires_at |-> now + 14, used_at |-> -1])
                          ELSE invites
            /\ UNCHANGED <<docVars, profiles, templates, accounts, remVars>>

W_templates == <<"t","e","m","p","l","a","t","e","s","/">>

W_customer_uploads == <<"c","u","s","t","o","m","e","r","_","u","p","l","o","a","d","s","/">>

\* FileField.pre_save: an uploaded file is stored under upload_to.
Stored(file, upload_to) == IF file.name = <<>> THEN file ELSE [file EXCEPT !.name = upload_to \o @]

\* update_field_schema_for_template(template): [raised, template]
update_field_schema_for_template(template, env) ==
    IF template.type = "PDF_ACROFORM" /\ env.pypdf
    THEN IF template.file.name = <<>> THEN [raised |-> "none", template |-> template]
         ELSE IF PdfReadRaises(template.file) # "none"
         THEN [raised |-> PdfReadRaises(template.file), template |-> template]
         ELSE [raised |-> "none",
               template |-> [template EXCEPT !.field_schema = FieldNamesOf(template.file.content)]]
    ELSE [raised |-> "none", template |-> template]

File_x == [name |-> N_t_pdf, content |-> Pdf_x]

File_email == [name |-> N_t_pdf, content |-> Pdf_email]

File_garbage == [name |-> N_t_pdf, content |-> FileContent("garbage", 0, <<>>, <<>>)]

File_docx == [name |-> N_t_docx, content |-> FileContent("docx", 0, <<>>, <<>>)]

\* What a broker may post to DocumentTemplateForm.
TemplateFormUniverse ==
    {[type |-> "PDF_ACROFORM", file |-> File_x], [type |-> "PDF_ACROFORM", file |-> File_garbage],
     [type |-> "DOCX", file |-> NoFile]}

\* The libraries of the web process and what the LLM answers during a request.
WebEnvUniverse ==
    {[pypdf |-> TRUE, docxtpl |-> TRUE, llm |-> LlmEnv(FALSE, "ok", FALSE, NoResponse)],
     [pypdf |-> TRUE, docxtpl |-> TRUE,
      llm |-> LlmEnv(TRUE, "ok", FALSE, LlmResponse("json_object", "number", <<>>))]}

WebEnv == [pypdf |-> TRUE, docxtpl |-> TRUE, llm |-> LlmEnv(FALSE, "ok", FALSE, NoResponse)]

DocumentTemplateListView ==
    \E u \in Users :
        /\ Handled("DocumentTemplateListView", Request(u, 0, <<>>),
                   IF BrokerRequired(u) # "pass" THEN Answer(BrokerRequired(u))
                   ELSE Shows("ok", Owned("templates", templates, u)))
        /\ UNCHANGED <<docVars, webVars, remVars>>

DocumentTemplateCreateView ==
    \E u \in Users, form \in TemplateFormUniverse :
        LET ok == BrokerRequired(u) = "pass" /\ form.file.name # <<>>
            pk == NextPk(templates)
            r == update_field_schema_for_template(
                    Template(pk, u, form.type, Stored(form.file, W_templates)), WebEnv)
        IN  /\ Handled("DocumentTemplateCreateView", Request(u, 0, form),
                       IF BrokerRequired(u) # "pass" THEN Answer(BrokerRequired(u))
                       ELSE IF ~ok THEN Answer("form_invalid")
                       ELSE IF r.raised # "none"
                       THEN Response("error500", {<<"templates", pk>>}, {}, "none", r.raised)
                       ELSE Shows("redirect", {<<"templates", pk>>}))
            /\ templates' = IF ok THEN Insert(templates, pk, r.template) ELSE templates
            /\ UNCHANGED <<docVars, profiles, invites, accounts, remVars>>

\* The lookup without the broker filter.
TemplateQuerysetAll(u) == DOMAIN templates

\* get_queryset of the template views: DocumentTemplate.objects.filter(broker=request.user)
TemplateQueryset(u) == {i \in DOMAIN templates : templates[i].broker = u}

DocumentTemplateUpdateView ==
    \E u \in Users, pk \in PkUniverse, form \in TemplateFormUniverse :
        LET found == BrokerRequired(u) = "pass" /\ pk \in TemplateQueryset(u)
            saved == [templates[pk] EXCEPT !.type = form.type,
                         !.file = IF form.file.name # <<>> THEN Stored(form.file, W_templates)
                                  ELSE @]
            r == update_field_schema_for_template(saved, WebEnv)
        IN  /\ Handled("DocumentTemplateUpdateView", Request(u, pk, form),
                       IF BrokerRequired(u) # "pass" THEN Answer(BrokerRequired(u))
                       ELSE IF ~found THEN Answer("not_found")
                       ELSE IF r.raised # "none"
                       THEN Response("error500", {<<"templates", pk>>}, {}, "none", r.raised)
                       ELSE Shows("redirect", {<<"templates", pk>>}))
            /\ templates' = IF found THEN [templates EXCEPT ![pk] = r.template] ELSE templates
            /\ UNCHANGED <<docVars, profiles, invites, accounts, remVars>>

DocumentTemplateDeleteView ==
    \E u \in Users, pk \in PkUniverse :
        LET found == BrokerRequired(u) = "pass" /\ pk \in TemplateQueryset(u)
        IN  /\ Handled("DocumentTemplateDeleteView", Request(u, pk, <<>>),
                       IF BrokerRequired(u) # "pass" THEN Answer(BrokerRequired(u))
                       ELSE IF ~found THEN Answer("not_found")
                       ELSE Shows("redirect", {<<"templates", pk>>}))
            /\ templates' = IF found THEN Delete(templates, pk) ELSE templates
            \* CustomerDocument.template is on_delete=SET_NULL
            /\ documents' = IF found
                            THEN [i \in DOMAIN documents |->
                                    IF documents[i].template = pk
                                    THEN [documents[i] EXCEPT !.template = 0] ELSE documents[i]]
                            ELSE documents
            /\ UNCHANGED <<next_doc_pk, profiles, invites, accounts, remVars>>

\* What may be posted to CustomerDocumentForm (the template field is removed).
DocumentFormUniverse ==
    {[uploaded_file |-> File_email, status |-> "sent"],
     [uploaded_file |-> NoFile, status |-> "draft"],
     [uploaded_file |-> NoFile, status |-> "bogus"]}

CustomerDocumentFormValid(form) == form.status \in {"draft", "sent", "completed"}

\* dispatch of CustomerDocumentCreateView and CustomerAutofillView:
\* get_object_or_404(CustomerProfile, pk=customer_pk, broker=request.user) runs
\* before the mixins; the lookup with the anonymous user raises TypeError.
DispatchCustomer(u, customer_pk) ==
    IF ~is_authenticated(u) THEN "error500"
    ELSE IF ~Found(profiles, customer_pk, u) THEN "not_found"
    ELSE BrokerRequired(u)

DispatchAnswer(d) ==
    IF d = "error500" THEN Response("error500", {}, {}, "none", "TypeError") ELSE Answer(d)

\* ReminderLog.document is on_delete=CASCADE
LogsWithoutDocument(pk) ==
    LET keep == {i \in DOMAIN logs : logs[i].document # pk}
    IN  [i \in keep |-> logs[i]]

CustomerDocumentCreateView ==
    \E u \in Users, customer_pk \in PkUniverse, form \in DocumentFormUniverse :
        LET d == DispatchCustomer(u, customer_pk)
            ok == d = "pass" /\ CustomerDocumentFormValid(form)
        IN  /\ Handled("CustomerDocumentCreateView", Request(u, customer_pk, form),
                       IF d # "pass" THEN DispatchAnswer(d)
                       ELSE IF ~ok THEN Shows("form_invalid", {<<"profiles", customer_pk>>})
                       ELSE Shows("redirect", {<<"profiles", customer_pk>>,
                                               <<"documents", next_doc_pk>>}))
            /\ documents' = IF ok
                            THEN Insert(documents, next_doc_pk,
                                        Document(u, customer_pk, 0,
                                                 Stored(form.uploaded_file, W_customer_uploads),
                                                 NoFile, form.status, NoReport))
                            ELSE documents
            /\ next_doc_pk' = IF ok THEN next_doc_pk + 1 ELSE next_doc_pk
            /\ UNCHANGED <<webVars, remVars>>

CustomerDocumentUpdateView ==
    \E u \in Users, pk \in PkUniverse, form \in DocumentFormUniverse :
        LET found == BrokerRequired(u) = "pass" /\ Found(documents, pk, u)
            ok == found /\ CustomerDocumentFormValid(form)
        IN  /\ Handled("CustomerDocumentUpdateView", Request(u, pk, form),
                       IF BrokerRequired(u) # "pass" THEN Answer(BrokerRequired(u))
                       ELSE IF ~found THEN Answer("not_found")
                       ELSE IF ~ok THEN Shows("form_invalid", {<<"documents", pk>>})
                       ELSE Shows("redirect", {<<"documents", pk>>}))
            /\ documents' = IF ok
                            THEN [documents EXCEPT ![pk].status = form.status,
                                     ![pk].uploaded_file =
                                        IF form.uploaded_file.name # <<>>
                                        THEN Stored(form.uploaded_file, W_customer_uploads) ELSE @]
                            ELSE documents
            /\ UNCHANGED <<next_doc_pk, webVars, remVars>>

CustomerDocumentDeleteView ==
    \E u \in Users, pk \in PkUniverse :
        LET found == BrokerRequired(u) = "pass" /\ Found(documents, pk, u)
        IN  /\ Handled("CustomerDocumentDeleteView", Request(u, pk, <<>>),
                       IF BrokerRequired(u) # "pass" THEN Answer(BrokerRequired(u))
                       ELSE IF ~found THEN Answer("not_found")
                       ELSE Shows("redirect", {<<"documents", pk>>}))
            /\ documents' = IF found THEN Delete(documents, pk) ELSE documents
            /\ logs' = IF found THEN LogsWithoutDocument(pk) ELSE logs
            /\ UNCHANGED <<next_doc_pk, webVars, rules, now>>

\* What a customer may post to CustomerSelfUploadDocumentForm.
SelfUploadFormUniverse == {[uploaded_file |-> File_docx], [uploaded_file |-> NoFile]}

CustomerDocumentSelfUploadView ==
    \E u \in Users, form \in SelfUploadFormUniverse :
        LET profile == customer_profile(u)
            ok == profile # 0 /\ CustomerRequired(u) = "pass"
        IN  /\ Handled("CustomerDocumentSelfUploadView", Request(u, 0, form),
                       IF profile = 0
                       THEN Answer(IF is_authenticated(u) THEN "forbidden" ELSE "redirect_login")
                       ELSE IF ~ok THEN Answer(CustomerRequired(u))
                       ELSE Shows("redirect", {<<"documents", next_doc_pk>>}))
            /\ documents' = IF ok
                            THEN Insert(documents, next_doc_pk,
                                        Document(profiles[profile].broker, profile, 0,
                                                 Stored(form.uploaded_file, W_customer_uploads),
                                                 NoFile, "draft", NoReport))
                            ELSE documents
            /\ next_doc_pk' = IF ok THEN next_doc_pk + 1 ELSE next_doc_pk
            /\ UNCHANGED <<webVars, remVars>>

\* The documents of every customer of the profile's broker.
SelfDeleteQuerysetOfBroker(u) ==
    LET profile == customer_profile(u)
    IN  IF profile = 0 THEN {}
        ELSE {i \in DOMAIN documents : documents[i].broker = profiles[profile].broker}

\* get_queryset of CustomerDocumentSelfDeleteView
SelfDeleteQueryset(u) ==
    LET profile == customer_profile(u)
    IN  IF profile = 0 THEN {}
        ELSE {i \in DOMAIN documents : /\ documents[i].customer = profile
                                       /\ documents[i].broker = profiles[profile].broker}

CustomerDocumentSelfDeleteView ==
    \E u \in Users, pk \in PkUniverse :
        LET found == CustomerRequired(u) = "pass" /\ pk \in SelfDeleteQueryset(u)
        IN  /\ Handled("CustomerDocumentSelfDeleteView", Request(u, pk, <<>>),
                       IF CustomerRequired(u) # "pass" THEN Answer(CustomerRequired(u))
                       ELSE IF ~found THEN Answer("not_found")
                       ELSE Shows("redirect", {<<"documents", pk>>}))
            /\ documents' = IF found THEN Delete(documents, pk) ELSE documents
            /\ logs' = IF found THEN LogsWithoutDocument(pk) ELSE logs
            /\ UNCHANGED <<next_doc_pk, webVars, rules, now>>

\* The choices posted to AutofillForm; 0 is the empty choice.
AutofillChoiceUniverse ==
    {[template |-> 0, document |-> 0], [template |-> 1, document |-> 0],
     [template |-> 2, document |-> 0], [template |-> 3, document |-> 0],
     [template |-> 0, document |-> 1], [template |-> 0, document |-> 2],
     [template |-> 1, document |-> 1]}

\* get_form: the querysets of the two fields.
AutofillTemplateChoices(u) == {i \in DOMAIN templates : templates[i].broker = u}

AutofillDocumentChoices(u, customer_pk) ==
    {i \in DOMAIN documents : documents[i].broker = u /\ documents[i].customer = customer_pk}

\* AutofillForm: a ModelChoiceField rejects a key outside its queryset and leaves
\* the field out of cleaned_data; clean() then demands exactly one of the two.
AutofillFormClean(form, template_choices, document_choices) ==
    LET template == IF form.template \in template_choices THEN form.template ELSE 0
        document == IF form.document \in document_choices THEN form.document ELSE 0
        field_errors == \/ form.template # 0 /\ template = 0
                        \/ form.document # 0 /\ document = 0
    IN  [valid |-> ~field_errors /\ ((template # 0) # (document # 0)),
         template |-> template, document |-> document]

CustomerAutofillView ==
    \E u \in Users, customer_pk \in PkUniverse, form \in AutofillChoiceUniverse,
       env \in WebEnvUniverse :
        LET d == DispatchCustomer(u, customer_pk)
            offered == {<<"templates", i>> : i \in AutofillTemplateChoices(u)}
                       \cup {<<"documents", i>> : i \in AutofillDocumentChoices(u, customer_pk)}
            cleaned == AutofillFormClean(form, AutofillTemplateChoices(u),
                                         AutofillDocumentChoices(u, customer_pk))
            request == [user |-> u, pk |-> customer_pk, form |-> form, env |-> env,
                        documents0 |-> documents]
        IN  IF d # "pass"
            THEN /\ Handled("CustomerAutofillView", request, DispatchAnswer(d))
                 /\ UNCHANGED <<docVars, webVars, remVars>>
            ELSE IF ~cleaned.valid
            THEN /\ Handled("CustomerAutofillView", request,
                            Response("form_invalid", {<<"profiles", customer_pk>>}, offered,
                                     "none", "none"))
                 /\ UNCHANGED <<docVars, webVars, remVars>>
            ELSE IF cleaned.template # 0
            THEN LET r == run_autofill_for_customer(templates[cleaned.template],
                                                    profiles[customer_pk], env)
                 IN  /\ Handled("CustomerAutofillView", request,
                                Response(IF r.raised = "none" THEN "redirect" ELSE "error500",
                                         {<<"profiles", customer_pk>>}, offered,
                                         "run_autofill_for_customer", r.raised))
                     /\ documents' = IF r.raised = "none"
                                     THEN Insert(documents, next_doc_pk, r.doc) ELSE documents
                     /\ next_doc_pk' = IF r.raised = "none" THEN next_doc_pk + 1
                                       ELSE next_doc_pk
                     /\ UNCHANGED <<webVars, remVars>>
            ELSE LET r == run_autofill_for_document(cleaned.document,
                                                    documents[cleaned.document],
                                                    profiles[customer_pk], env)
                 IN  /\ Handled("CustomerAutofillView", request,
                                Response(IF r.raised = "none" THEN "redirect" ELSE "error500",
                                         {<<"profiles", customer_pk>>}, offered,
                                         "run_autofill_for_document", r.raised))
                     /\ documents' = [documents EXCEPT ![cleaned.document] = r.doc]
                     /\ UNCHANGED <<next_doc_pk, webVars, remVars>>

\* What a broker may post to ReminderRuleForm; has_text: subject and body are given.
RuleFormUniverse ==
    {[days_after |-> 1, brevo_template_id |-> None, has_text |-> TRUE, enabled |-> TRUE],
     [days_after |-> 0, brevo_template_id |-> <<"7">>, has_text |-> FALSE, enabled |-> FALSE],
     [days_after |-> 1, brevo_template_id |-> None, has_text |-> FALSE, enabled |-> TRUE]}

\* ReminderRuleForm.clean
ReminderRuleFormValid(form) == Truthy(form.brevo_template_id) \/ form.has_text

ReminderRuleListView ==
    \E u \in Users :
        /\ Handled("ReminderRuleListView", Request(u, 0, <<>>),
                   IF BrokerRequired(u) # "pass" THEN Answer(BrokerRequired(u))
                   ELSE Shows("ok", Owned("rules", rules, u) \cup Owned("logs", logs, u)))
        /\ UNCHANGED <<docVars, webVars, remVars>>

ReminderRuleCreateView ==
    \E u \in Users, form \in RuleFormUniverse :
        LET ok == BrokerRequired(u) = "pass" /\ ReminderRuleFormValid(form)
            pk == NextPk(rules)
        IN  /\ Handled("ReminderRuleCreateView", Request(u, 0, form),
                       IF BrokerRequired(u) # "pass" THEN Answer(BrokerRequired(u))
                       ELSE IF ~ok THEN Answer("form_invalid")
                       ELSE Shows("redirect", {<<"rules", pk>>}))
            /\ rules' = IF ok
                        THEN Insert(rules, pk, ReminderRule(u, form.days_after,
                                                            form.brevo_template_id, form.enabled))
                        ELSE rules
            /\ UNCHANGED <<docVars, webVars, logs, now>>

ReminderRuleUpdateView ==
    \E u \in Users, pk \in PkUniverse, form \in RuleFormUniverse :
        LET found == BrokerRequired(u) = "pass" /\ Found(rules, pk, u)
            ok == found /\ ReminderRuleFormValid(form)
        IN  /\ Handled("ReminderRuleUpdateView", Request(u, pk, form),
                       IF BrokerRequired(u) # "pass" THEN Answer(BrokerRequired(u))
                       ELSE IF ~found THEN Answer("not_found")
                       ELSE IF ~ok THEN Shows("form_invalid", {<<"rules", pk>>})
                       ELSE Shows("redirect", {<<"rules", pk>>}))
            /\ rules' = IF ok
                        THEN [rules EXCEPT ![pk].days_after = form.days_after,
                                 ![pk].brevo_template_id = form.brevo_template_id,
                                 ![pk].enabled = form.enabled]
                        ELSE rules
            /\ UNCHANGED <<docVars, webVars, logs, now>>

\* core/views.py: everybody but a CUSTOMER gets HttpResponseForbidden.
CustomerDashboardView ==
    \E u \in Users :
        LET profile == customer_profile(u)
        IN  /\ Handled("CustomerDashboardView", Request(u, 0, <<>>),
                       IF ~is_authenticated(u) \/ Role(u) # "CUSTOMER" THEN Answer("forbidden")
                       ELSE IF profile = 0 THEN Shows("ok", {})
                       ELSE Shows("ok", {<<"profiles", profile>>}
                                  \cup {<<"documents", i>> : i \in SelfDeleteQueryset(u)}))
            /\ UNCHANGED <<docVars, webVars, remVars>>

\* A database both brokers have worked in: each owns customers, templates,
\* documents, rules and a log; customer user c1 is linked to profile 1, c2 to none.
InitWeb ==
    /\ pc = "start"
    /\ args = Request("anon", 0, <<>>)
    /\ result = Answer("none")
    /\ profiles = ProfileFixture
    /\ templates = <<[Template(1, "b1", "PDF_ACROFORM", File_email) EXCEPT !.field_schema = <<W_email>>],
                     [Template(2, "b2", "PDF_ACROFORM", File_email) EXCEPT !.field_schema = <<W_email>>],
                     [Template(3, "b1", "PDF_ACROFORM", File_x) EXCEPT !.field_schema = <<W_x>>]>>
    /\ documents = <<Document("b1", 1, 0, File_email, NoFile, "draft", NoReport),
                     Document("b2", 2, 2, File_docx, NoFile, "sent", NoReport),
                     Document("b1", 3, 0, File_email, NoFile, "draft", NoReport)>>
    /\ next_doc_pk = 4
    /\ invites = <<[broker |-> "b2", customer |-> 2, token |-> 1, expires_at |-> 14, used_at |-> -1]>>
    /\ accounts = AccountFixture
    /\ rules = RuleFixture
    /\ logs = <<ReminderLog("b1", 1, 1, 1, 0, "pending"),
                [ReminderLog("b2", 2, 2, 4, 0, "sent") EXCEPT !.sent_at = 0]>>
    /\ now = 0
    /\ nreq = 0

NextWeb ==
    \/ CustomerListView
    \/ CustomerCreateView
    \/ CustomerUpdateView
    \/ CustomerDetailView
    \/ CustomerInviteCreateView
    \/ DocumentTemplateListView
    \/ DocumentTemplateCreateView
    \/ DocumentTemplateUpdateView
    \/ DocumentTemplateDeleteView
    \/ CustomerDocumentCreateView
    \/ CustomerDocumentUpdateView
    \/ CustomerDocumentDeleteView
    \/ CustomerDocumentSelfUploadView
    \/ CustomerDocumentSelfDeleteView
    \/ CustomerAutofillView
    \/ ReminderRuleListView
    \/ ReminderRuleCreateView
    \/ ReminderRuleUpdateView
    \/ CustomerDashboardView

SpecWeb == InitWeb /\ [][NextWeb]_vars

-----------------------------------------------------------------------------
(* Tenant isolation and role separation                                    *)

BrokerViews ==
    {"CustomerListView", "CustomerCreateView", "CustomerUpdateView", "CustomerDetailView",
     "CustomerInviteCreateView", "DocumentTemplateListView", "DocumentTemplateCreateView",
     "DocumentTemplateUpdateView", "DocumentTemplateDeleteView", "CustomerDocumentCreateView",
     "CustomerDocumentUpdateView", "CustomerDocumentDeleteView", "CustomerAutofillView",
     "ReminderRuleListView", "ReminderRuleCreateView", "ReminderRuleUpdateView"}

CustomerViews ==
    {"CustomerDocumentSelfUploadView", "CustomerDocumentSelfDeleteView", "CustomerDashboardView"}

\* The table whose row the pk of a request to the view addresses ("" for none).
AddressedTable(view) ==
    CASE view \in {"CustomerUpdateView", "CustomerDetailView", "CustomerInviteCreateView",
                   "CustomerDocumentCreateView", "CustomerAutofillView"} -> "profiles"
      [] view \in {"DocumentTemplateUpdateView", "DocumentTemplateDeleteView"} -> "templates"
      [] view \in {"CustomerDocumentUpdateView", "CustomerDocumentDeleteView"} -> "documents"
      [] view = "ReminderRuleUpdateView" -> "rules"
      [] OTHER -> ""

TableOf(name, p, t, d, i, r, l) ==
    CASE name = "profiles" -> p
      [] name = "templates" -> t
      [] name = "documents" -> d
      [] name = "invites" -> i
      [] name = "rules" -> r
      [] OTHER -> l

TableNames == {"profiles", "templates", "documents", "invites", "rules", "logs"}

\* The keys at which two versions of a table differ.
Touched(old, new) ==
    {k \in DOMAIN old \cup DOMAIN new :
        k \notin DOMAIN old \/ k \notin DOMAIN new \/ old[k] # new[k]}

\* Every version of row k in the two tables belongs to broker u.
BrokerIs(old, new, k, u) ==
    /\ k \in DOMAIN old => old[k].broker = u
    /\ k \in DOMAIN new => new[k].broker = u

\* Every row links only rows of its own broker.
C4_LinksWithinTenant ==
    /\ \A k \in DOMAIN documents :
          /\ documents[k].customer \in DOMAIN profiles
          /\ profiles[documents[k].customer].broker = documents[k].broker
          /\ documents[k].template \in DOMAIN templates =>
                templates[documents[k].template].broker = documents[k].broker
    /\ \A k \in DOMAIN invites :
          /\ invites[k].customer \in DOMAIN profiles
          /\ profiles[invites[k].customer].broker = invites[k].broker

\* One request of a broker u to a broker view.
C4_Step ==
    (pc' \in BrokerViews /\ Role(args'.user) = "BROKER" /\ nreq' = nreq + 1) =>
        LET u == args'.user
            view == pc'
            old(n) == TableOf(n, profiles, templates, documents, invites, rules, logs)
            new(n) == TableOf(n, profiles', templates', documents', invites', rules', logs')
            foreign == /\ AddressedTable(view) # ""
                       /\ args'.pk \in DOMAIN old(AddressedTable(view))
                       /\ old(AddressedTable(view))[args'.pk].broker # u
        IN  /\ \A n \in TableNames : \A k \in Touched(old(n), new(n)) :
                  BrokerIs(old(n), new(n), k, u)
            /\ \A s \in result'.shown \cup result'.offered :
                  BrokerIs(old(s[1]), new(s[1]), s[2], u)
            /\ foreign => /\ result'.status = "not_found"
                          /\ result'.shown = {} /\ result'.offered = {}
                          /\ result'.autofill = "none"
                          /\ UNCHANGED <<docVars, webVars, remVars>>
            /\ view = "CustomerAutofillView" =>
                  \A s \in result'.offered :
                      s[1] = "documents" => documents[s[2]].customer = args'.pk

(* C4: tenant isolation.  In every reachable state each document and each     *)
(* invite links a customer (and a template) of its own broker; a request of   *)
(* a broker to a broker view creates, changes, deletes, shows and offers      *)
(* only rows whose broker is that user; a request that addresses a row of     *)
(* another broker is answered not_found, shows nothing, runs no autofill and  *)
(* changes no table; and the autofill form offers only the broker's own       *)
(* templates and only documents of the addressed customer.                    *)
C4_TenantIsolation == [](C4_LinksWithinTenant) /\ [][C4_Step]_vars

\* Broker b1 asked to delete the template of broker b2 and got not_found.
C4_Witness ==
    /\ pc = "DocumentTemplateDeleteView"
    /\ args.user = "b1"
    /\ args.pk \in DOMAIN templates
    /\ templates[args.pk].broker = "b2"
    /\ result.status = "not_found"

\* One request of a user who is no broker to a broker view.
C5_NonBrokerStep ==
    (pc' \in BrokerViews /\ Role(args'.user) # "BROKER" /\ nreq' = nreq + 1) =>
        /\ result'.status \in {"redirect_login", "forbidden", "not_found", "error500"}
        /\ result'.shown = {} /\ result'.offered = {}
        /\ result'.autofill = "none"
        /\ UNCHANGED <<docVars, webVars, remVars>>

\* One request to a view of the customer portal.
C5_CustomerStep ==
    (pc' \in CustomerViews /\ nreq' = nreq + 1) =>
        LET u == args'.user
            profile == customer_profile(u)
            acts == result'.shown # {} \/ documents' # documents \/ logs' # logs
        IN  /\ UNCHANGED <<webVars, rules, now>>
            /\ \A k \in Touched(logs, logs') :
                  k \notin DOMAIN logs' /\ logs[k].document \notin DOMAIN documents'
            /\ acts => /\ is_authenticated(u) /\ Role(u) = "CUSTOMER"
                       /\ profile # 0
                       /\ \A k \in Touched(documents, documents') :
                             /\ k \in DOMAIN documents => documents[k].customer = profile
                             /\ k \in DOMAIN documents' => documents'[k].customer = profile
                       /\ \A s \in result'.shown :
                             \/ s = <<"profiles", profile>>
                             \/ /\ s[1] = "documents"
                                /\ s[2] \in DOMAIN documents => documents[s[2]].customer = profile
                                /\ s[2] \in DOMAIN documents' => documents'[s[2]].customer = profile

(* C5: role separation.  A request of a CUSTOMER or of the anonymous user to  *)
(* a view guarded by BrokerRequiredMixin is refused, shows and offers no row, *)
(* runs no autofill and changes no table; the views of the customer portal    *)
(* create, delete and show documents only for an authenticated CUSTOMER with  *)
(* a linked profile, and only documents of that profile.                      *)
C5_RoleSeparation == [][C5_NonBrokerStep /\ C5_CustomerStep]_vars

\* Customer c1 asked to delete a document of another customer of the same broker
\* and got not_found; the document is still there.
C5_Witness ==
    /\ pc = "CustomerDocumentSelfDeleteView"
    /\ args.user = "c1"
    /\ customer_profile("c1") # 0
    /\ args.pk \in DOMAIN documents
    /\ documents[args.pk].customer # customer_profile("c1")
    /\ documents[args.pk].broker = profiles[customer_profile("c1")].broker
    /\ result.status = "not_found"

-----------------------------------------------------------------------------
(* The autofill form and CustomerAutofillView.form_valid                    *)

\* The choice posted for the field is one of the options the form offers.
C10_Chosen(field) ==
    /\ args.form[field] # 0
    /\ <<IF field = "template" THEN "templates" ELSE "documents", args.form[field]>>
          \in result.offered

\* The file the operation starts from is one the libraries can read: a PDF with
\* a page for a PDF_ACROFORM template or a .pdf document, a DOCX for the others.
C10_Readable ==
    /\ C10_Chosen("template") =>
          LET t == templates[args.form.template]
          IN  \/ t.type = "PDF_ACROFORM" /\ t.file.name # <<>> /\ t.file.content.kind = "pdf"
                 /\ t.file.content.pages > 0
              \/ t.type = "DOCX" /\ t.file.name # <<>> /\ t.file.content.kind = "docx"
    /\ C10_Chosen("document") =>
          LET f == C9_Base(args.documents0[args.form.document])
          IN  \/ EndsWith(Lower(f.name), Ext_pdf) /\ f.content.kind = "pdf" /\ f.content.pages > 0
              \/ EndsWith(Lower(f.name), Ext_docx) /\ f.content.kind = "docx"

(* C10 (as stated): a submission to CustomerAutofillView that reaches the    *)
(* form and picks among the offered options is valid iff exactly one of      *)
(* template and document is chosen; a valid submission with a template runs              *)
(* run_autofill_for_customer and leaves exactly one new CustomerDocument of  *)
(* the addressed customer and that template; a valid submission with a       *)
(* document runs run_autofill_for_document and refills that document in      *)
(* place (a generated file, status draft, no other row touched); a           *)
(* submission with both or neither runs no autofill and changes no           *)
(* document.  Stated for files the libraries can read.                       *)
C10_ExactlyOneAutofill ==
    ( /\ pc = "CustomerAutofillView"
      /\ result.status \in {"form_invalid", "redirect", "error500"}
      /\ result.raised # "TypeError" \/ result.autofill # "none"
      /\ args.form.template # 0 => C10_Chosen("template")
      /\ args.form.document # 0 => C10_Chosen("document")
      /\ C10_Readable )
    => LET valid == result.status # "form_invalid"
           new == DOMAIN documents \ DOMAIN args.documents0
       IN  /\ valid <=> (C10_Chosen("template") # C10_Chosen("document"))
           /\ (valid /\ C10_Chosen("template")) =>
                 /\ result.autofill = "run_autofill_for_customer"
                 /\ Cardinality(new) = 1
                 /\ \A k \in new : /\ documents[k].customer = args.pk
                                   /\ documents[k].template = args.form.template
                 /\ \A k \in DOMAIN args.documents0 : documents[k] = args.documents0[k]
           /\ (valid /\ C10_Chosen("document")) =>
                 /\ result.autofill = "run_autofill_for_document"
                 /\ new = {}
                 /\ Touched(args.documents0, documents) \subseteq {args.form.document}
                 /\ documents[args.form.document].generated_file.name # <<>>
                 /\ documents[args.form.document].status = "draft"
           /\ ~valid => /\ result.autofill = "none"
                        /\ documents = args.documents0

-----------------------------------------------------------------------------
(* From a sent document to the reminder email                               *)

\* A day passes: timezone.now() of the next run is one day later.
Tick ==
    /\ now < MaxNow
    /\ now' = now + 1
    /\ UNCHANGED <<pc, args, result, docVars, webVars, rules, logs, nreq>>

\* A run with BREVO_API_KEY set during which the provider accepts every email.
SendDueRemindersAccepted == SendDueRemindersWith({TRUE}, {"accepted_json_object"})

\* The database of InitWeb on the day before any document is sent: every
\* document is a draft and no reminder is logged.
InitReminderFlow ==
    /\ pc = "start"
    /\ args = Request("anon", 0, <<>>)
    /\ result = Answer("none")
    /\ profiles = ProfileFixture
    /\ templates = <<>>
    /\ documents = <<Document("b1", 1, 0, File_email, NoFile, "draft", NoReport),
                     Document("b2", 2, 0, File_docx, NoFile, "draft", NoReport)>>
    /\ next_doc_pk = 3
    /\ invites = <<>>
    /\ accounts = AccountFixture
    /\ rules = RuleFixture
    /\ logs = <<>>
    /\ now = 0
    /\ nreq = 0

NextReminderFlow ==
    \/ CustomerDocumentUpdateView
    \/ ReminderRuleUpdateView
    \/ Tick
    \/ SendDueRemindersAccepted

\* Days keep passing and the command keeps being run (cron).
SpecReminderFlow ==
    /\ InitReminderFlow
    /\ [][NextReminderFlow]_vars
    /\ WF_vars(Tick)
    /\ WF_vars(SendDueRemindersAccepted)

C7_Sent(d) == d \in DOMAIN documents /\ documents[d].status = "sent"

C7_RuleOn(r, d) ==
    /\ r \in DOMAIN rules /\ d \in DOMAIN documents
    /\ rules[r].enabled
    /\ rules[r].trigger_event = "DOCUMENT_SENT"
    /\ rules[r].broker = documents[d].broker

C7_Emailed(d, r) ==
    \E l \in DOMAIN logs : logs[l].document = d /\ logs[l].rule = r /\ logs[l].status = "sent"

(* C7 (as stated): once a document is sent (here: on day 0, so that          *)
(* days_after days fit before the clock stops), for every enabled            *)
(* DOCUMENT_SENT rule of its broker a reminder for that document and rule    *)
(* is eventually emailed by a run whose provider accepts it, unless the      *)
(* rule is switched off or the document leaves status sent before.           *)
C7_SentDocumentIsReminded ==
    \A d \in {1, 2}, r \in DOMAIN RuleFixture :
        (C7_Sent(d) /\ C7_RuleOn(r, d) /\ now = 0)
            ~> (C7_Emailed(d, r) \/ ~C7_Sent(d) \/ ~C7_RuleOn(r, d))

-----------------------------------------------------------------------------
(* customers/views.py: InviteAcceptView                                    *)
(*                                                                         *)
(* Requests run in autocommit (no ATOMIC_REQUESTS, no transaction.atomic): *)
(* every save is kept when a later statement of the same request raises.   *)
(* A password is stored as the text that was set (its hash, one to one).   *)

\* CustomerInvite.is_active without the test of used_at.
is_active_until_expiry(invite) == invite.expires_at > now

\* CustomerInvite.is_active; -1 is the null used_at.
is_active(invite) == invite.used_at = -1 /\ invite.expires_at > now

\* _get_invite: the pk of the invite with this token, 0 when there is none (404).
get_invite(token) ==
    IF \E i \in DOMAIN invites : invites[i].token = token
    THEN CHOOSE i \in DOMAIN invites : invites[i].token = token
    ELSE 0

\* validate_password with the validators of the settings: "123" is too short,
\* common and numeric.
validate_password(password) == password # "123"

\* InvitePasswordForm: both fields required, clean_password1, clean.
InvitePasswordFormValid(form) ==
    /\ form.password1 # ""
    /\ form.password2 # ""
    /\ validate_password(form.password1)
    /\ form.password1 = form.password2

InvitePasswordFormUniverse ==
    {[password1 |-> "pw_new", password2 |-> "pw_new"],
     [password1 |-> "pw_new", password2 |-> "pw_other"],
     [password1 |-> "123", password2 |-> "123"]}

\* Emails a self-assessment may carry: of the customer account c1, of the
\* unlinked customer account c2, of the broker b1, and two of no account.
EmailUniverse ==
    {<<"e","@","x">>, <<"c","2","@","x">>, <<"b","1","@","x">>, <<"n","@","x">>, <<"g","@","x">>}

\* What is posted to CustomerSelfAssessmentForm.
SelfAssessmentFormUniverse ==
    {[data |-> [FullData EXCEPT ![W_email] = e]] : e \in EmailUniverse}
    \cup {[data |-> BlankData]}

\* CustomerSelfAssessmentForm.save on the profile row.
CustomerSelfAssessmentFormSave(profile, form) ==
    [profile EXCEPT !.data = form.data,
                    !.status = IF @ = "new" THEN "in_progress" ELSE @]

\* User.objects.get(email=email, role=CUSTOMER); NoUser stands for DoesNotExist.
UserGet(email) ==
    IF \E u \in DOMAIN accounts : accounts[u].email = email /\ accounts[u].role = "CUSTOMER"
    THEN CHOOSE u \in DOMAIN accounts : accounts[u].email = email /\ accounts[u].role = "CUSTOMER"
    ELSE NoUser

\* The key of the row create_user inserts.
NewUserNames == <<"c3", "c4", "c5">>

NewUser ==
    NewUserNames[CHOOSE i \in 1..Len(NewUserNames) :
                    /\ NewUserNames[i] \notin DOMAIN accounts
                    /\ \A j \in 1..(i - 1) : NewUserNames[j] \in DOMAIN accounts]

\* user.set_password(password); user.save()
set_password(u, password) == [accounts EXCEPT ![u].password = password]

\* What a POST leaves behind: the response and the three tables.
Outcome(response, p, a, i) == [response |-> response, profiles |-> p, accounts |-> a, invites |-> i]

Error500(exc) == [Answer("error500") EXCEPT !.raised = exc]

\* InviteAcceptView.post for the invite ipk (found by its token).
InviteAcceptPost(ipk, form) ==
    LET invite == invites[ipk]
        cpk == invite.customer
        password == form.password.password1
        saved == [profiles EXCEPT ![cpk] = CustomerSelfAssessmentFormSave(@, form.profile)]
        email == form.profile.data[W_email]
        used == [invites EXCEPT ![ipk].used_at = now]
        found == UserGet(email)
    IN  IF ~is_active(invite)
        THEN Outcome(Answer("invite_invalid"), profiles, accounts, invites)
        ELSE IF ~(InvitePasswordFormValid(form.password) /\ CustomerProfileFormValid(form.profile))
        THEN Outcome(Shows("form_invalid", {<<"invites", ipk>>}), profiles, accounts, invites)
        ELSE IF ~Truthy(email)
        THEN Outcome(Shows("form_invalid", {<<"invites", ipk>>}), saved, accounts, invites)
        ELSE IF saved[cpk].user # NoUser
        THEN Outcome(Shows("invite_complete", {<<"profiles", cpk>>}),
                     saved, set_password(saved[cpk].user, password), used)
        ELSE IF found = NoUser
        THEN IF \E u \in DOMAIN accounts : accounts[u].email = email
             THEN Outcome(Error500("IntegrityError"), saved, accounts, invites)
             ELSE Outcome(Shows("invite_complete", {<<"profiles", cpk>>}),
                          [saved EXCEPT ![cpk].user = NewUser],
                          Insert(accounts, NewUser, Account(email, "CUSTOMER", password)),
                          used)
        ELSE IF \E j \in DOMAIN profiles : profiles[j].user = found
        THEN Outcome(Error500("IntegrityError"), saved, set_password(found, password), invites)
        ELSE Outcome(Shows("invite_complete", {<<"profiles", cpk>>}),
                     [saved EXCEPT ![cpk].user = found], set_password(found, password), used)

\* The tokens a request may carry.
TokenUniverse == {1, 2, 3, 4}

InviteAcceptViewGet ==
    \E token \in TokenUniverse :
        /\ Handled("InviteAcceptViewGet", Request("anon", token, <<>>),
                   IF get_invite(token) = 0 THEN Answer("not_found")
                   ELSE IF ~is_active(invites[get_invite(token)]) THEN Answer("invite_invalid")
                   ELSE Shows("ok", {<<"invites", get_invite(token)>>,
                                     <<"profiles", invites[get_invite(token)].customer>>}))
        /\ UNCHANGED <<docVars, webVars, remVars>>

InviteAcceptViewPost ==
    \E token \in TokenUniverse, pf \in InvitePasswordFormUniverse,
       sf \in SelfAssessmentFormUniverse :
        \E form \in {[password |-> pf, profile |-> sf]} :
            IF get_invite(token) = 0
            THEN /\ Handled("InviteAcceptViewPost", Request("anon", token, form),
                            Answer("not_found"))
                 /\ UNCHANGED <<docVars, webVars, remVars>>
            ELSE \E o \in {InviteAcceptPost(get_invite(token), form)} :
                 /\ Handled("InviteAcceptViewPost", Request("anon", token, form), o.response)
                 /\ profiles' = o.profiles
                 /\ accounts' = o.accounts
                 /\ invites' = o.invites
                 /\ UNCHANGED <<docVars, templates, remVars>>

\* The brokers' customers with three open invites: for profile 2 (no account),
\* for profile 1 (account c1) running out on day 1, and for profile 3 (no account).
InitInvite ==
    /\ pc = "start"
    /\ args = Request("anon", 0, <<>>)
    /\ result = Answer("none")
    /\ profiles = ProfileFixture
    /\ templates = <<>>
    /\ documents = <<>>
    /\ next_doc_pk = 1
    /\ invites = <<[broker |-> "b2", customer |-> 2, token |-> 1, expires_at |-> 14, used_at |-> -1],
                   [broker |-> "b1", customer |-> 1, token |-> 2, expires_at |-> 1, used_at |-> -1],
                   [broker |-> "b1", customer |-> 3, token |-> 3, expires_at |-> 14, used_at |-> -1]>>
    /\ accounts = AccountFixture
    /\ rules = <<>>
    /\ logs = <<>>
    /\ now = 0
    /\ nreq = 0

NextInvite ==
    \/ CustomerInviteCreateView
    \/ InviteAcceptViewGet
    \/ InviteAcceptViewPost
    \/ Tick

SpecInvite == InitInvite /\ [][NextInvite]_vars

\* A step in which InviteAcceptView answered a request for an existing invite.
C12_PostStep == nreq' = nreq + 1 /\ pc' = "InviteAcceptViewPost" /\ get_invite(args'.pk) # 0

C13_AcceptStep ==
    /\ nreq' = nreq + 1
    /\ pc' \in {"InviteAcceptViewGet", "InviteAcceptViewPost"}
    /\ get_invite(args'.pk) # 0

(* C12 (as stated): a successful InviteAcceptView.post changes the password *)
(* only of the account already linked to the invite's profile or of an      *)
(* account created in that request, never of an account that existed before *)
(* and was not linked to that profile, whatever email is submitted.         *)
C12_PasswordOnlyOfOwnAccount ==
    [][(C12_PostStep /\ result'.status = "invite_complete") =>
          \A u \in DOMAIN accounts :
              accounts'[u].password # accounts[u].password
                  => profiles[invites[get_invite(args'.pk)].customer].user = u]_vars

\* An invite is usable: its used_at is None and its expires_at is later than now.
C13_Usable(invite) == invite.used_at = -1 /\ invite.expires_at > now

(* C13: an invite token is usable only while used_at is None and            *)
(* expires_at, set to creation time + 14 days, is later than now. A         *)
(* successful accept sets used_at; every GET or POST with the token of a    *)
(* used or expired invite renders the invalid-invite page and changes no    *)
(* user, no profile and no invite; a used invite is never changed again.    *)
C13_TokenUsableOnlyWhileActive ==
    [][/\ (C13_AcceptStep /\ ~C13_Usable(invites[get_invite(args'.pk)])) =>
              /\ result'.status = "invite_invalid"
              /\ accounts' = accounts /\ profiles' = profiles /\ invites' = invites
       /\ (C13_AcceptStep /\ result'.status = "invite_complete") =>
              /\ C13_Usable(invites[get_invite(args'.pk)])
              /\ invites'[get_invite(args'.pk)].used_at = now
       /\ \A i \in DOMAIN invites' \ DOMAIN invites :
              invites'[i].expires_at = now + 14 /\ invites'[i].used_at = -1
       /\ \A i \in DOMAIN invites :
              /\ i \in DOMAIN invites'
              /\ invites'[i].expires_at = invites[i].expires_at
              /\ invites[i].used_at # -1 => invites'[i] = invites[i]
       /\ now' >= now]_vars

\* An accepted invite is posted again with valid forms, and an expired one is
\* requested: the invalid-invite page is the answer.
C13_Witness ==
    /\ pc = "InviteAcceptViewPost"
    /\ result.status = "invite_invalid"
    /\ get_invite(args.pk) # 0
    /\ invites[get_invite(args.pk)].used_at # -1
    /\ invites[get_invite(args.pk)].expires_at > now
    /\ InvitePasswordFormValid(args.form.password)
    /\ CustomerProfileFormValid(args.form.profile)
    /\ \E i \in DOMAIN invites : invites[i].used_at = -1 /\ invites[i].expires_at <= now

(* C14 (as stated): invite acceptance is all-or-nothing. If                 *)
(* InviteAcceptView.post does not end with the completion page, then no     *)
(* CustomerProfile field (status included), no user password, no            *)
(* profile-user link and no invite used_at has been changed, and the invite *)
(* stays usable.                                                            *)
C14_AcceptAllOrNothing ==
    [][(C12_PostStep /\ result'.status # "invite_complete") =>
          /\ profiles' = profiles
          /\ accounts' = accounts
          /\ invites' = invites]_vars

\* sent_at is set exactly on the SENT logs, an error text only on FAILED ones.
C17_Consistent(log) ==
    /\ log.status \in {"pending", "sent", "failed"}
    /\ (log.sent_at # -1) <=> (log.status = "sent")
    /\ log.error_text # "" => log.status = "failed"

(* C17: across any sequence of send_due_reminders runs that do not overlap  *)
(* a log's status only ever moves PENDING -> SENT or PENDING -> FAILED;     *)
(* SENT and FAILED logs are never selected, handed to the provider or       *)
(* modified again; and in every reachable state sent_at is non-null exactly *)
(* when status is SENT, and error_text is non-empty only when status is     *)
(* FAILED.                                                                  *)
C17_LogLifecycle ==
    /\ [](\A i \in DOMAIN logs : C17_Consistent(logs[i]))
    /\ [][\A i \in DOMAIN logs :
             /\ i \in DOMAIN logs'
             /\ logs'[i] # logs[i] =>
                    /\ logs[i].status = "pending"
                    /\ logs'[i].status \in {"sent", "failed"}
             /\ logs[i].status # "pending" =>
                    /\ \A k \in 1..Len(args'.order) : args'.order[k] # i
                    /\ \A k \in 1..Len(result'.asked) : result'.asked[k] # i]_vars

\* A run that found a SENT log, a FAILED log or both beside a due PENDING one,
\* settled the pending one and left the settled one as it was.
C17_Witness ==
    /\ pc = "send_due_reminders"
    /\ \E i, j \in DOMAIN logs :
          /\ args.logs0[i].status \in {"sent", "failed"}
          /\ args.logs0[i].due_at <= args.now0
          /\ logs[i] = args.logs0[i]
          /\ args.logs0[j].status = "pending"
          /\ logs[j].status = "sent"
          /\ logs[j].sent_at = args.now0

-----------------------------------------------------------------------------
(* send_due_reminders run twice at overlapping times                       *)
(*                                                                         *)
(* The command takes no lock and uses no transaction and no                *)
(* select_for_update, so the queries and saves of two runs interleave.     *)
(* Here pc, args and result are per run: pc[p] is the position of run p,   *)
(* args[p] its local variables (t, total, the rows still to iterate,       *)
(* sent_count, failed_count), and result.asked[i] counts the emails handed *)
(* to the provider for log i.                                              *)

Runs == {1, 2}

\* save(update_fields=[...]) of mark_sent / mark_failed: the columns written
\* come from the instance the run holds, the others stay as the row has them.
SaveMarked(row, marked) ==
    IF marked.status = "sent"
    THEN [row EXCEPT !.status = marked.status, !.sent_at = marked.sent_at,
                     !.provider_response_id = marked.provider_response_id]
    ELSE [row EXCEPT !.status = marked.status, !.error_text = marked.error_text]

\* is_configured, now = timezone.now(), total = pending_logs.count()
RunCount(p) ==
    /\ pc[p] = "start"
    /\ \E configured \in BOOLEAN :
         LET total == Cardinality(PendingLogs(logs, now))
         IN  /\ pc' = [pc EXCEPT ![p] = IF configured /\ total > 0 THEN "counted" ELSE "done"]
             /\ args' = [args EXCEPT ![p].t = now, ![p].total = total]
    /\ UNCHANGED <<result, docVars, webVars, remVars, nreq>>

\* "for log in pending_logs" evaluates the queryset: the rows are read once.
RunFetch(p) ==
    /\ pc[p] = "counted"
    /\ \E order \in DueOrders(logs, args[p].t) :
         args' = [args EXCEPT ![p].queue =
                      [k \in 1..Len(order) |-> [pk |-> order[k], row |-> logs[order[k]]]]]
    /\ pc' = [pc EXCEPT ![p] = "loop"]
    /\ UNCHANGED <<result, docVars, webVars, remVars, nreq>>

\* One pass of the loop body, on the row as it was read.
RunBody(p) ==
    /\ pc[p] = "loop"
    /\ args[p].queue # <<>>
    /\ \E outcome \in ProviderOutcomes :
        \E log \in {Head(args[p].queue)} :
        \E r \in {ProcessLog(log.row, rules[log.row.rule], outcome, now)} :
            /\ logs' = IF r.raised = "none"
                       THEN [logs EXCEPT ![log.pk] = SaveMarked(@, r.log)]
                       ELSE logs
            /\ result' = IF r.asked THEN [result EXCEPT !.asked[log.pk] = @ + 1] ELSE result
            /\ args' = [args EXCEPT ![p].queue = Tail(@),
                                    ![p].sent_count = @ + r.sent,
                                    ![p].failed_count = @ + r.failed]
            /\ pc' = [pc EXCEPT ![p] = IF r.raised = "none" THEN "loop" ELSE "raised"]
    /\ UNCHANGED <<docVars, webVars, rules, now, nreq>>

\* The loop is over: the report is written.
RunEnd(p) ==
    /\ pc[p] = "loop"
    /\ args[p].queue = <<>>
    /\ pc' = [pc EXCEPT ![p] = "done"]
    /\ UNCHANGED <<args, result, docVars, webVars, remVars, nreq>>

InitOverlap ==
    /\ pc = [p \in Runs |-> "start"]
    /\ args = [p \in Runs |-> [t |-> 0, total |-> 0, queue |-> <<>>, sent_count |-> 0,
                               failed_count |-> 0]]
    /\ documents = <<>> /\ next_doc_pk = 1
    /\ profiles = ProfileFixture /\ templates = <<>> /\ invites = <<>>
    /\ accounts = AccountFixture
    /\ rules = RuleFixture
    /\ logs \in SeqsUpTo(LogUniverse, MaxLogs)
    /\ result = [asked |-> [i \in DOMAIN logs |-> 0]]
    /\ now = 1
    /\ nreq = 0

NextOverlap == \E p \in Runs : RunCount(p) \/ RunFetch(p) \/ RunBody(p) \/ RunEnd(p)

SpecOverlap == InitOverlap /\ [][NextOverlap]_vars

(* C16 (as stated): even when two executions of send_due_reminders overlap  *)
(* in time, each due ReminderLog causes at most one email to be handed to   *)
(* the provider, and its final status reflects that single attempt.         *)
C16_AtMostOneEmailPerLog ==
    \A i \in DOMAIN logs :
        /\ result.asked[i] <= 1
        /\ logs[i].status = "failed" => logs[i].sent_at = -1

-----------------------------------------------------------------------------
(* documents/autofill.py: resolving a field reference to a field name      *)
(*                                                                         *)
(* fields is the dict of the form's fields, a function from the real field *)
(* name to [TU, T], the field's /TU label and /T partial name (None when   *)
(* the entry is absent); field_names is the set of its keys.               *)

AlnumChars ==
    {"a","b","c","d","e","f","g","h","i","j","k","l","m","n","o","p","q","r","s","t",
     "u","v","w","x","y","z","0","1","2","3","4","5","6","7","8","9"}

IsAlnum(c) == c \in AlnumChars

\* _normalize_match_key: strip, lower, drop everything outside [a-z0-9].
normalize_match_key(s) ==
    SelectSeq(Lower(Strip(IF s = None THEN <<>> ELSE s)), IsAlnum)

DigitOrder == <<"0","1","2","3","4","5","6","7","8","9">>

IsDigit(c) == c \in Digits

DigitValue(c) == (CHOOSE d \in 1..Len(DigitOrder) : DigitOrder[d] = c) - 1

\* int() of a string of decimal digits.
RECURSIVE IntOfDigits(_)
IntOfDigits(ds) ==
    IF ds = <<>> THEN 0
    ELSE 10 * IntOfDigits(SubSeq(ds, 1, Len(ds) - 1)) + DigitValue(ds[Len(ds)])

\* re.match(r"^(.*)_([0-9]+)$", fr): the positions of the underscore of a match
\* (at most one: everything after it is digits; "." matches no newline).
SuffixMatch(fr) ==
    {k \in 1..(Len(fr) - 1) :
        /\ fr[k] = "_"
        /\ \A j \in (k + 1)..Len(fr) : IsDigit(fr[j])
        /\ \A j \in 1..(k - 1) : fr[j] # "\n"}

\* str(field_name).split(".")[-1]
RECURSIVE LastSegment(_)
LastSegment(name) ==
    IF name = <<>> THEN <<>>
    ELSE IF name[Len(name)] = "." THEN <<>>
    ELSE Append(LastSegment(SubSeq(name, 1, Len(name) - 1)), name[Len(name)])

\* field.get("/TU") or field.get("/T") or field_name
FieldLabel(fields, field_name) ==
    IF Truthy(fields[field_name].TU) THEN fields[field_name].TU
    ELSE IF Truthy(fields[field_name].T) THEN fields[field_name].T
    ELSE field_name

\* The keys under which _build_label_index_from_fields lists field_name.
IndexKeysOf(fields, field_name) ==
    LET norm == normalize_match_key(FieldLabel(fields, field_name))
        last_norm == normalize_match_key(LastSegment(field_name))
    IN  IF field_name = <<>> \/ norm = <<>> THEN {}
        ELSE {norm} \cup (IF last_norm # <<>> THEN {last_norm} ELSE {})

\* _build_label_index_from_fields: a function from the normalised key to the
\* set of the field names listed under it (its one reader sorts set(list)).
build_label_index_from_fields(fields) ==
    LET keys == UNION {IndexKeysOf(fields, n) : n \in DOMAIN fields}
    IN  [k \in keys |-> {n \in DOMAIN fields : k \in IndexKeysOf(fields, n)}]

\* The characters of the inputs in code point order.
CodeOrder ==
    <<"\n", " ", ".", "0","1","2","3","4","5","6","7","8","9",
      "A","B","C","D","E","F","G","H","I","J","K","L","M","N","O","P","Q","R","S","T",
      "U","V","W","X","Y","Z", "_",
      "a","b","c","d","e","f","g","h","i","j","k","l","m","n","o","p","q","r","s","t",
      "u","v","w","x","y","z", "|">>

CodePoint(c) == CHOOSE k \in 1..Len(CodeOrder) : CodeOrder[k] = c

\* x < y for Python strings.
RECURSIVE StrLess(_, _)
StrLess(x, y) ==
    IF y = <<>> THEN FALSE
    ELSE IF x = <<>> THEN TRUE
    ELSE IF Head(x) = Head(y) THEN StrLess(Tail(x), Tail(y))
    ELSE CodePoint(Head(x)) < CodePoint(Head(y))

\* sorted(set(candidates))[n - 1]
NthSorted(candidates, n) ==
    CHOOSE x \in candidates : Cardinality({y \in candidates : StrLess(y, x)}) = n - 1

\* _resolve_field_ref_to_field_name; None when nothing is found.
resolve_field_ref_to_field_name(field_ref, field_names, fields) ==
    LET fr == Strip(IF field_ref = None THEN <<>> ELSE field_ref)
    IN  IF fr = <<>> THEN None
        ELSE IF fr \in field_names THEN fr
        ELSE LET m == SuffixMatch(fr)
                 k == CHOOSE k \in m : TRUE
                 base == IF m = {} THEN fr ELSE Strip(SubSeq(fr, 1, k - 1))
                 nth == IF m = {} THEN 0 ELSE IntOfDigits(SubSeq(fr, k + 1, Len(fr)))
                 index == build_label_index_from_fields(fields)
                 key == normalize_match_key(base)
             IN  IF key \notin DOMAIN index THEN None
                 ELSE IF nth # 0 /\ 1 <= nth /\ nth <= Cardinality(index[key])
                      THEN NthSorted(index[key], nth)
                      ELSE NthSorted(index[key], 1)

\* Field names of a form: a plain one, two children of one parent.
FormFieldNames == {<<"a">>, <<"p",".","b">>, <<"p",".","c">>}

\* /TU labels: none, one that two fields may share, one that ends in "_2",
\* and one that reads like the last segment of a name.
LabelUniverse == {None, <<"T","e","l">>, <<"T","e","l","_","2">>, <<"B">>}

\* The forms: every non-empty set of the names, each with one of the labels
\* and with its last segment as /T.
FieldsUniverse ==
    UNION {{[n \in N |-> [TU |-> tu[n], T |-> LastSegment(n)]] : tu \in [N -> LabelUniverse]} :
              N \in (SUBSET FormFieldNames) \ {{}}}

\* References: names, labels, labels with a suffix, blanks around a name, and
\* references that match nothing.
FieldRefUniverse ==
    FormFieldNames
    \cup (LabelUniverse \ {None})
    \cup {<<"T","e","l","_","1">>, <<"T","e","l","_","3">>, <<"T","e","l","_","0">>,
          <<"T","e","l","_","2","_","2">>, <<"t","e","l"," ">>, <<" ","a">>, <<"c">>,
          <<"z">>, <<>>, None}

InitResolve ==
    /\ pc = "start"
    /\ \E fields \in FieldsUniverse, field_ref \in FieldRefUniverse :
          args = [field_ref |-> field_ref, fields |-> fields]
    /\ result = NoResult
    /\ IdleTables

CallResolveFieldRef ==
    /\ pc = "start"
    /\ pc' = "_resolve_field_ref_to_field_name"
    /\ result' = [value |-> resolve_field_ref_to_field_name(
                                args.field_ref, DOMAIN args.fields, args.fields)]
    /\ UNCHANGED <<args, docVars, webVars, remVars, nreq>>

NextResolve == CallResolveFieldRef

SpecResolve == InitResolve /\ [][NextResolve]_vars

\* The fields whose /TU label is exactly s.
FieldsLabelled(fields, s) ==
    {n \in DOMAIN fields : fields[n].TU = s /\ normalize_match_key(s) # <<>>}

\* Some field's name, label or last name segment matches field_ref.
SomethingMatches(fields, field_ref) ==
    \E n \in DOMAIN fields :
        \/ n = field_ref
        \/ fields[n].TU = field_ref
        \/ normalize_match_key(FieldLabel(fields, n)) = normalize_match_key(field_ref)
        \/ normalize_match_key(LastSegment(n)) = normalize_match_key(field_ref)

(* C19: a field_ref that is an existing field name is returned as is; a      *)
(* field_ref that is exactly the /TU label of some field (also a label that  *)
(* ends in "_<digits>") resolves to a field whose label normalises to the    *)
(* same key as field_ref; "<label>_N" resolves to the N-th name in sorted    *)
(* order among the fields carrying <label>; and None is returned only when   *)
(* no field's name, label or last name segment matches.                      *)
C19_ResolvesLabelToItsField ==
    (pc = "_resolve_field_ref_to_field_name" /\ args.field_ref # None) =>
        LET fields == args.fields
            fr == args.field_ref
            r == result.value
        IN  /\ fr \in DOMAIN fields => r = fr
            /\ (fr \notin DOMAIN fields /\ FieldsLabelled(fields, fr) # {}) =>
                  /\ r \in DOMAIN fields
                  /\ normalize_match_key(FieldLabel(fields, r)) = normalize_match_key(fr)
            /\ \A s \in LabelUniverse \ {None} : \A N \in 1..Cardinality(FieldsLabelled(fields, s)) :
                  (fr = s \o <<"_", DigitOrder[N + 1]>> /\ fr \notin DOMAIN fields
                      /\ FieldsLabelled(fields, fr) = {})
                  => r = NthSorted(FieldsLabelled(fields, s), N)
            /\ (r = None /\ Truthy(fr)) => ~SomethingMatches(fields, fr)

-----------------------------------------------------------------------------
(* documents/autofill.py: field ids of the widgets of a PDF form           *)
(*                                                                         *)
(* A reader is the sequence of its pages, a page the sequence of its       *)
(* /Annots. An annotation is                                               *)
(*   [ref, Subtype, FT, T, TU, Rect, Parent]                               *)
(* ref being the indirect reference [idnum, generation] it is reached by,  *)
(* or Direct for an object written in place; Parent is NoParent or         *)
(* [ref, T, TU, FT]. A coordinate is a whole number of thousandths.        *)

Direct == [direct |-> TRUE]

NoParent == [absent |-> TRUE]

IndirectObject(idnum, generation) == [idnum |-> idnum, generation |-> generation]

\* str(n) of a natural number.
RECURSIVE StrNat(_)
StrNat(n) ==
    IF n < 10 THEN <<DigitOrder[n + 1]>>
    ELSE Append(StrNat(n \div 10), DigitOrder[(n % 10) + 1])

\* _pdf_indirect_ref_code: "<idnum> <generation> R", None for a direct object.
pdf_indirect_ref_code(obj) ==
    IF obj = Direct THEN None
    ELSE StrNat(obj.idnum) \o <<" ">> \o StrNat(obj.generation) \o <<" ", "R">>

\* _normalize_rect: the four coordinates, None when there are not four.
normalize_rect(rect) ==
    IF rect = None THEN None
    ELSE IF Len(rect) # 4 THEN None
    ELSE rect

\* f"{v:.2f}" of a coordinate of v thousandths, v >= 0.
FormatFixed2(v) ==
    LET h == (v + 5) \div 10
    IN  StrNat(h \div 100) \o <<".", DigitOrder[((h \div 10) % 10) + 1], DigitOrder[(h % 10) + 1]>>

\* sep.join(parts)
RECURSIVE Join(_, _)
Join(sep, parts) ==
    IF parts = <<>> THEN <<>>
    ELSE IF Len(parts) = 1 THEN parts[1]
    ELSE parts[1] \o sep \o Join(sep, Tail(parts))

\* s.replace(" ", "_")
ReplaceBlanks(s) == [i \in 1..Len(s) |-> IF s[i] = " " THEN "_" ELSE s[i]]

HexDigits == <<"0","1","2","3","4","5","6","7","8","9","a","b","c","d","e","f">>

\* The sum of the code points of s.
RECURSIVE CodeSum(_)
CodeSum(s) == IF s = <<>> THEN 0 ELSE CodePoint(Head(s)) + CodeSum(Tail(s))

\* hashlib.sha1(seed.encode("utf-8")).hexdigest()[:12]: SHA-1 is stood for by
\* a checksum of the seed, written as twelve hexadecimal digits; like the
\* truncated digest it is a function of the seed alone and not injective.
Sha1Hex12(seed) ==
    LET c == CodeSum(seed)
    IN  [k \in 1..12 |-> HexDigits[((c * k + k) % 16) + 1]]

\* _build_field_id with the plain field name appended to a selector made of
\* refs and rect.
build_field_id_with_name(page_index, widget_ref, parent_ref, rect, field_name_fallback) ==
    LET parts ==
            <<<<"p">> \o StrNat(page_index)>>
            \o (IF Truthy(widget_ref) THEN <<<<"w">> \o ReplaceBlanks(widget_ref)>> ELSE <<>>)
            \o (IF Truthy(parent_ref) /\ parent_ref # widget_ref
                THEN <<<<"f">> \o ReplaceBlanks(parent_ref)>> ELSE <<>>)
            \o (IF rect # None /\ rect # <<>>
                THEN <<<<"r">> \o Join(<<",">>, [k \in 1..Len(rect) |-> FormatFixed2(rect[k])])>>
                ELSE <<>>)
        name == IF field_name_fallback = None THEN <<>> ELSE field_name_fallback
    IN  IF Len(parts) > 1 THEN Join(<<"|">>, parts) \o <<"|">> \o name
        ELSE <<"p">> \o StrNat(page_index) \o <<"|", "h">>
             \o Sha1Hex12(name \o <<"|">> \o StrNat(page_index))

\* _build_field_id
build_field_id(page_index, widget_ref, parent_ref, rect, field_name_fallback) ==
    LET parts ==
            <<<<"p">> \o StrNat(page_index)>>
            \o (IF Truthy(widget_ref) THEN <<<<"w">> \o ReplaceBlanks(widget_ref)>> ELSE <<>>)
            \o (IF Truthy(parent_ref) /\ parent_ref # widget_ref
                THEN <<<<"f">> \o ReplaceBlanks(parent_ref)>> ELSE <<>>)
            \o (IF rect # None /\ rect # <<>>
                THEN <<<<"r">> \o Join(<<",">>, [k \in 1..Len(rect) |-> FormatFixed2(rect[k])])>>
                ELSE <<>>)
        name == IF field_name_fallback = None THEN <<>> ELSE field_name_fallback
    IN  IF Len(parts) > 1 THEN Join(<<"|">>, parts)
        ELSE <<"p">> \o StrNat(page_index) \o <<"|", "h">>
             \o Sha1Hex12(name \o <<"|">> \o StrNat(page_index))

\* x or y for two Optional values.
OrElse(x, y) == IF Truthy(x) THEN x ELSE y

\* The body of the loop over the annotations of a page: the descriptor of the
\* widget, or <<>> when the annotation is skipped.
DescriptorsOfAnnot(page_index, annot) ==
    LET widget_ref_code == pdf_indirect_ref_code(annot.ref)
        own == annot.FT # None /\ annot.T # None
        parent_ref_code == IF own \/ annot.Parent = NoParent THEN None
                           ELSE pdf_indirect_ref_code(annot.Parent.ref)
        has_parent == ~own /\ annot.Parent # NoParent
        t == IF has_parent THEN OrElse(annot.Parent.T, annot.T) ELSE annot.T
        tu == IF has_parent THEN OrElse(annot.Parent.TU, annot.TU) ELSE annot.TU
        ft == IF has_parent THEN OrElse(annot.Parent.FT, annot.FT) ELSE annot.FT
        rect == normalize_rect(annot.Rect)
    IN  IF annot.Subtype # "/Widget" THEN <<>>
        ELSE IF ~Truthy(t) THEN <<>>
        ELSE <<[field_id |-> build_field_id(page_index, widget_ref_code, parent_ref_code, rect, t),
                field_name |-> t,
                label_hint |-> IF tu # None THEN tu ELSE t,
                field_type |-> ft,
                page_index |-> page_index,
                rect |-> rect,
                widget_ref |-> widget_ref_code,
                parent_ref |-> parent_ref_code]>>

RECURSIVE DescriptorsOfPage(_, _)
DescriptorsOfPage(page_index, annots) ==
    IF annots = <<>> THEN <<>>
    ELSE DescriptorsOfAnnot(page_index, Head(annots)) \o DescriptorsOfPage(page_index, Tail(annots))

\* extract_pdf_acroform_descriptors, from page k of the reader on (pages
\* count from 0).
RECURSIVE DescriptorsFrom(_, _)
DescriptorsFrom(pages, k) ==
    IF k > Len(pages) THEN <<>>
    ELSE DescriptorsOfPage(k - 1, pages[k]) \o DescriptorsFrom(pages, k + 1)

extract_pdf_acroform_descriptors(reader) == DescriptorsFrom(reader, 1)

N_n == <<"n">>

N_m == <<"m">>

RectUniverse == {None, <<0, 0, 1004, 12506>>, <<0, 0, 1004>>}

\* What an annotation can be besides its reference and rectangle: a field of
\* its own (two names), a kid of a parent field (the parent reached by its own
\* reference or by the reference of widget 1), a link, a widget without name.
AnnotKindUniverse ==
    {[Subtype |-> "/Widget", FT |-> <<"/","T","x">>, T |-> nm, TU |-> None, Parent |-> NoParent] :
        nm \in {N_n, N_m}}
    \cup {[Subtype |-> "/Widget", FT |-> None, T |-> None, TU |-> None,
           Parent |-> [ref |-> IndirectObject(id, 0), T |-> N_n, TU |-> <<"L">>,
                       FT |-> <<"/","T","x">>]] : id \in {1, 30}}
    \cup {[Subtype |-> "/Link", FT |-> None, T |-> None, TU |-> None, Parent |-> NoParent],
          [Subtype |-> "/Widget", FT |-> <<"/","T","x">>, T |-> None, TU |-> None,
           Parent |-> NoParent]}

AnnotUniverse ==
    {[ref |-> r, Subtype |-> k.Subtype, FT |-> k.FT, T |-> k.T, TU |-> k.TU, Rect |-> rc,
      Parent |-> k.Parent] :
        r \in {Direct, IndirectObject(1, 0), IndirectObject(12, 0)},
        k \in AnnotKindUniverse, rc \in RectUniverse}

MaxAnnots == 2

InitFieldId ==
    /\ pc = "start"
    /\ \/ \E page \in SeqsUpTo(AnnotUniverse, MaxAnnots) : args = [reader |-> <<page>>]
       \/ \E a, b \in AnnotUniverse : args = [reader |-> <<<<a>>, <<b>>>>]
    /\ result = NoResult
    /\ IdleTables

CallExtractDescriptors ==
    /\ pc = "start"
    /\ pc' = "extract_pdf_acroform_descriptors"
    /\ result' = [descriptors |-> extract_pdf_acroform_descriptors(args.reader)]
    /\ UNCHANGED <<args, docVars, webVars, remVars, nreq>>

NextFieldId == CallExtractDescriptors

SpecFieldId == InitFieldId /\ [][NextFieldId]_vars

\* The id has a part that starts with the letter c.
HasPart(id, c) == \E i \in 1..(Len(id) - 1) : id[i] = "|" /\ id[i + 1] = c

\* s occurs in id.
Occurs(s, id) == \E i \in 0..(Len(id) - Len(s)) : SubSeq(id, i + 1, i + Len(s)) = s

(* C20: the field id of a widget is a function of page index, widget ref,    *)
(* parent ref and rect whenever one of the three is there (any other field   *)
(* name gives the same id); the name enters only when all three are absent,  *)
(* and then only as the digest of name and page index; the parent ref is a   *)
(* part of the id only when it is there and differs from the widget ref; and *)
(* two widgets of one page with different widget refs have different ids.    *)
(* The field name does not occur in the id.                                  *)
C20_FieldIdIsNameFreeSelector ==
    pc = "extract_pdf_acroform_descriptors" =>
        LET ds == result.descriptors
        IN  /\ \A i \in 1..Len(ds) :
                  LET d == ds[i]
                      avail == Truthy(d.widget_ref) \/ Truthy(d.parent_ref) \/ d.rect # None
                      page == <<"p">> \o StrNat(d.page_index)
                  IN  /\ avail =>
                            /\ \A nm \in {N_n, N_m, <<"z">>, <<>>, None} :
                                  build_field_id(d.page_index, d.widget_ref, d.parent_ref,
                                                 d.rect, nm) = d.field_id
                            /\ ~HasPart(d.field_id, "h")
                      /\ ~avail =>
                            d.field_id = page \o <<"|", "h">>
                                         \o Sha1Hex12(d.field_name \o <<"|">> \o StrNat(d.page_index))
                      /\ HasPart(d.field_id, "f") <=>
                            (Truthy(d.parent_ref) /\ d.parent_ref # d.widget_ref)
                      /\ SubSeq(d.field_id, 1, Len(page) + 1) = page \o <<"|">>
                      /\ ~Occurs(d.field_name, d.field_id)
            /\ \A i, j \in 1..Len(ds) :
                  (ds[i].page_index = ds[j].page_index /\ ds[i].widget_ref # ds[j].widget_ref)
                  => ds[i].field_id # ds[j].field_id

\* Two widgets of one page with the same rectangle and different widget refs,
\* the first the kid of a parent with a ref of its own.
C20_Witness ==
    /\ pc = "extract_pdf_acroform_descriptors"
    /\ Len(result.descriptors) = 2
    /\ LET d1 == result.descriptors[1]
           d2 == result.descriptors[2]
       IN  /\ d1.page_index = d2.page_index
           /\ Truthy(d1.widget_ref) /\ Truthy(d2.widget_ref)
           /\ d1.widget_ref # d2.widget_ref
           /\ d1.rect = d2.rect /\ d1.rect # None
           /\ Truthy(d1.parent_ref) /\ d1.parent_ref # d1.widget_ref
           /\ HasPart(d1.field_id, "w") /\ HasPart(d1.field_id, "f") /\ HasPart(d1.field_id, "r")
           /\ d1.field_id # d2.field_id

=============================================================================
